---- MODULE Spec2Model ----
(***************************************************************************)
(* A model of the KSS comment parser of kss-node (lib/parse): parse(),     *)
(* parseChunk(), findBlocks(), processProperty(), checkReference(),        *)
(* hasPrefix(), createModifiers() and createParameters().                  *)
(*                                                                         *)
(* Text is a sequence of atoms.  An atom is a whitespace character, a      *)
(* punctuation character, a comment marker or a run of word characters     *)
(* that no regular expression of the parser looks inside.  Adjacent        *)
(* non-whitespace atoms form one word, so <<"style","guide">> spells the   *)
(* word "styleguide".                                                      *)
(***************************************************************************)
EXTENDS Integers, Sequences, FiniteSets, TLC

VARIABLES input, options, pc, i, blocks, j, paragraphs, currSection, kept,
          sections, result, generator, fs, cloning, fb, kssSection, generating

vars == <<input, options, pc, i, blocks, j, paragraphs, currSection, kept,
          sections, result, generator, fs, cloning, fb, kssSection, generating>>

-----------------------------------------------------------------------------
(* Characters and generic string operations.                               *)

SP == " "
NL == "\n"
CR == "\r"

\* The class \s of the regular expressions.
IsWs(c) == c \in {" ", "\n", "\r", "\t"}

Take(s, n) == SubSeq(s, 1, n)
Drop(s, n) == SubSeq(s, n + 1, Len(s))

\* Index of the first character that is not whitespace, Len(s)+1 if none.
FirstNonWs(s) ==
  IF \A k \in 1..Len(s) : IsWs(s[k]) THEN Len(s) + 1
  ELSE CHOOSE k \in 1..Len(s) : ~IsWs(s[k]) /\ \A m \in 1..(k - 1) : IsWs(s[m])

\* Index of the last character that is not whitespace, 0 if none.
LastNonWs(s) ==
  IF \A k \in 1..Len(s) : IsWs(s[k]) THEN 0
  ELSE CHOOSE k \in 1..Len(s) : ~IsWs(s[k]) /\ \A m \in (k + 1)..Len(s) : IsWs(s[m])

\* s.replace(/^\s+/, '')
LTrim(s) == Drop(s, FirstNonWs(s) - 1)

\* s.replace(/\s*$/, '')
RTrim(s) == Take(s, LastNonWs(s))

\* s.replace(/^\s+|\s+$/g, '') and String.prototype.trim
Trim(s) == LTrim(RTrim(s))

\* Index of the first occurrence of the two-character string a b, 0 if none.
IndexOf2(s, a, b) ==
  IF \E k \in 1..(Len(s) - 1) : s[k] = a /\ s[k + 1] = b
  THEN CHOOSE k \in 1..(Len(s) - 1) :
         /\ s[k] = a /\ s[k + 1] = b
         /\ \A m \in 1..(k - 1) : ~(s[m] = a /\ s[m + 1] = b)
  ELSE 0

\* Index of the first occurrence of the character c, 0 if none.
IndexOf(s, c) ==
  IF \E k \in 1..Len(s) : s[k] = c
  THEN CHOOSE k \in 1..Len(s) : s[k] = c /\ \A m \in 1..(k - 1) : s[m] # c
  ELSE 0

\* s.split(sep) for a one-character separator.
RECURSIVE Split1(_, _)
Split1(s, c) ==
  LET k == IndexOf(s, c)
  IN  IF k = 0 THEN <<s>> ELSE <<Take(s, k - 1)>> \o Split1(Drop(s, k), c)

\* s.split('\n\n')
RECURSIVE Split2(_, _, _)
Split2(s, a, b) ==
  LET k == IndexOf2(s, a, b)
  IN  IF k = 0 THEN <<s>> ELSE <<Take(s, k - 1)>> \o Split2(Drop(s, k + 1), a, b)

\* parts.join(sep) for a separator given as text.
RECURSIVE Join(_, _)
Join(parts, sep) ==
  IF Len(parts) = 0 THEN <<>>
  ELSE IF Len(parts) = 1 THEN parts[1]
  ELSE parts[1] \o sep \o Join(Tail(parts), sep)

\* s.split(/\s+/)
RECURSIVE SplitWs(_)
SplitWs(s) ==
  IF \A k \in 1..Len(s) : ~IsWs(s[k]) THEN <<s>>
  ELSE LET k == CHOOSE k \in 1..Len(s) : IsWs(s[k]) /\ \A m \in 1..(k - 1) : ~IsWs(s[m])
           rest == Drop(s, k)
       IN  <<Take(s, k - 1)>> \o SplitWs(Drop(rest, FirstNonWs(rest) - 1))

\* .replace(/\r\n/g, '\n').replace(/\r/g, '\n')
NormalizeNewlines(s) ==
  SelectSeq([k \in 1..Len(s) |->
               IF s[k] = CR /\ (k = Len(s) \/ s[k + 1] # NL) THEN NL ELSE s[k]],
            LAMBDA c : c # CR)

\* End of the whitespace run that starts at index k (k - 1 if s[k] is no
\* whitespace).
WsRunEnd(s, k) ==
  IF k > Len(s) \/ ~IsWs(s[k]) THEN k - 1
  ELSE CHOOSE e \in k..Len(s) :
         /\ \A m \in k..e : IsWs(s[m])
         /\ (e = Len(s) \/ ~IsWs(s[e + 1]))

\* .replace(/\n\s+\n/g, '\n\n'): within one run of whitespace everything
\* strictly between its first and its last newline goes, when at least one
\* character lies between them.
CollapseBlankLines(s) ==
  LET inside(k) ==
        /\ IsWs(s[k])
        /\ \E a \in 1..(k - 1) : s[a] = NL /\ \A m \in a..k : IsWs(s[m])
        /\ \E l \in (k + 1)..Len(s) : s[l] = NL /\ \A m \in k..l : IsWs(s[m])
      keep == SelectSeq([k \in 1..Len(s) |-> k], LAMBDA k : ~inside(k))
  IN  [n \in 1..Len(keep) |-> s[keep[n]]]

\* The header left on several lines.
FlattenNothing(s) == s

\* s.replace(/\n/g, ' ')
Flatten(s) == [k \in 1..Len(s) |-> IF s[k] = NL THEN SP ELSE s[k]]

\* The word spelt by a sequence of atoms.
RECURSIVE Spell(_)
Spell(w) == IF w = <<>> THEN "" ELSE w[1] \o Spell(Tail(w))

\* toLowerCase and the i flag, on the atoms written with a capital.
LowerAtom(a) ==
  CASE a = "Styleguide" -> "styleguide"
    [] a = "Style"      -> "style"
    [] a = "Markup"     -> "markup"
    [] a = "Weight"     -> "weight"
    [] a = "Deprecated" -> "deprecated"
    [] a = "Experimental" -> "experimental"
    [] OTHER            -> a

ToLowerCase(w) == [k \in 1..Len(w) |-> LowerAtom(w[k])]

\* The class [a-z] under the i flag: the atoms that are runs of letters.
IsAlpha(a) ==
  a \in {"styleguide", "Styleguide", "stileguide", "style", "Style", "guide",
         "markup", "Markup", "marcup", "weight", "Weight", "deprecated",
         "Deprecated", "experimental", "Experimental", "Head", "more",
         "hover", "x", "y", "d", "e", "cont"}

\* natural.Metaphone.process: the phonetic code of a word.  Words that sound
\* alike share a code; every other word stands for its own code.
Metaphone(w) ==
  LET l == Spell(ToLowerCase(w))
  IN  CASE l \in {"styleguide", "stileguide"} -> "STLKT"
        [] l \in {"markup", "marcup"}         -> "MRKP"
        [] OTHER                              -> l

\* natural.Metaphone.compare
MetaphoneCompare(a, b) == Metaphone(a) = Metaphone(b)

-----------------------------------------------------------------------------
(* The rich-text renderer (marked).                                        *)

\* marked(text): block-level rendering.  Every paragraph becomes a <p>
\* element followed by a newline; the empty text renders to the empty text.
RECURSIVE WrapParagraphs(_)
WrapParagraphs(ps) ==
  IF ps = <<>> THEN <<>>
  ELSE <<"<p>">> \o ps[1] \o <<"</p>", NL>> \o WrapParagraphs(Tail(ps))

Marked(text) ==
  IF Trim(text) = <<>> THEN <<>>
  ELSE WrapParagraphs(Split2(Trim(text), NL, NL))

\* marked(text, {renderer: inlineRenderer}): the paragraph renderer returns
\* its text, so plain words come back without a wrapping element.
MarkedInline(text) == Trim(text)

-----------------------------------------------------------------------------
(* hasPrefix, processProperty, checkReference.                             *)

\* The positions at which ^ matches under the m flag.
LineStarts(s) == {k \in 1..Len(s) : k = 1 \/ s[k - 1] = NL}

\* /^\s*label\:/ matched at line start p.
LabelAt(s, p, label) ==
  LET q == p + FirstNonWs(Drop(s, p - 1)) - 1
  IN  /\ q + 1 <= Len(s)
      /\ LowerAtom(s[q]) = LowerAtom(label)
      /\ s[q + 1] = ":"

\* End (the colon) of a match of /^\s*([a-z ]*):/ at line start p, 0 if none.
WordsMatchEnd(s, p) ==
  LET ColonAt(r) == IF s[r] = ":" THEN r ELSE 0
      FirstOf(stop) ==
        IF stop = {} THEN 0
        ELSE ColonAt(CHOOSE r \in stop : \A n \in stop : r <= n)
      From(q) == FirstOf({r \in q..Len(s) : ~(IsAlpha(s[r]) \/ s[r] = SP)})
  IN  From(p + FirstNonWs(Drop(s, p - 1)) - 1)

\* hasPrefix without the m flag: the label is looked for at the start of the
\* text only.
hasPrefixAtStart(description, opts, prefix) ==
  IF ~opts.typos THEN LabelAt(description, 1, prefix)
  ELSE /\ WordsMatchEnd(LTrim(description), 1) # 0
       /\ MetaphoneCompare(SubSeq(LTrim(description), 1,
                                  WordsMatchEnd(LTrim(description), 1) - 1),
                           <<prefix>>)

hasPrefix(description, opts, prefix) ==
  IF ~opts.typos
  THEN \E p \in LineStarts(description) : LabelAt(description, p, prefix)
  ELSE LET Words(d, p) == SubSeq(d, p, WordsMatchEnd(d, p) - 1)
           FirstMatch(d, ms) ==
             IF ms = {} THEN FALSE
             ELSE MetaphoneCompare(Words(d, CHOOSE p \in ms : \A n \in ms : p <= n),
                                   <<prefix>>)
           Fuzzy(d) == FirstMatch(d, {p \in LineStarts(d) : WordsMatchEnd(d, p) # 0})
       IN  Fuzzy(LTrim(description))

\* paragraph.replace(new RegExp('^\\s*' + name + '\\:\\s+?', 'gmi'), '')
RECURSIVE StripLabel(_, _, _)
StripLabel(s, name, atStart) ==
  IF s = <<>> THEN <<>>
  ELSE LET q == FirstNonWs(s)
       IN  IF /\ atStart
              /\ q + 2 <= Len(s)
              /\ LowerAtom(s[q]) = name
              /\ s[q + 1] = ":"
              /\ IsWs(s[q + 2])
           THEN StripLabel(Drop(s, q + 2), name, s[q + 2] = NL)
           ELSE <<s[1]>> \o StripLabel(Tail(s), name, s[1] = NL)

\* A JavaScript number: NaN or an integer.
Num(n) == [nan |-> FALSE, n |-> n]
NaN == [nan |-> TRUE, n |-> 0]

\* The numeric atoms and their values.
IsDigits(a) == a \in {"0", "1", "2", "4"}
DigitsValue(a) ==
  CASE a = "1" -> 1 [] a = "2" -> 2 [] a = "4" -> 4 [] OTHER -> 0

\* isNaN(value) for a string: Number('') is 0, Number of digits is their
\* value, everything else is NaN.
IsNaNString(value) ==
  LET t == Trim(value)
  IN  ~(t = <<>> \/ (Len(t) = 1 /\ IsDigits(t[1])))

\* parseFloat(value): the leading digits, NaN if there are none.
ParseFloat(value) ==
  LET t == Trim(value)
  IN  IF t # <<>> /\ IsDigits(t[1]) THEN Num(DigitsValue(t[1])) ELSE NaN

\* The Weight callback with the branches of its conditional exchanged.
WeightValueExchanged(value) == IF IsNaNString(value) THEN ParseFloat(value) ELSE Num(0)

\* The processValue callback of the Weight property.
WeightValue(value) == IF IsNaNString(value) THEN Num(0) ELSE ParseFloat(value)

\* No processValue callback: the value is stored as it is.
NoProcessValue(value) == value

\* processValue ? processValue(value) : value, the callback named by a tag
\* ("weight" for the Weight callback, "undefined" for none).
ApplyProcessValue(processValue, value) ==
  IF processValue = "weight" THEN WeightValue(value) ELSE NoProcessValue(value)

\* sectionData[propertyName] = value
SetProperty(sectionData, name, value) ==
  CASE name = "markup" -> [sectionData EXCEPT !.markup = [set |-> TRUE, val |-> value]]
    [] name = "weight" -> [sectionData EXCEPT !.weight = [set |-> TRUE, val |-> value]]
    [] OTHER -> [sectionData EXCEPT !.custom =
                   [n \in (DOMAIN @) \cup {name} |-> IF n = name THEN value ELSE @[n]]]

\* indexToRemove stopping at the first matching paragraph.
IndexOfFirstMatch(name, paras, opts) ==
  LET First(hits) == IF hits = {} THEN 0 ELSE CHOOSE k \in hits : \A n \in hits : k <= n
  IN  First({k \in 1..Len(paras) : hasPrefix(paras[k], opts, name)})

\* The index the map() callback leaves in indexToRemove, 0 for false.
IndexToRemove(name, paras, opts) ==
  LET Last(hits) == IF hits = {} THEN 0 ELSE CHOOSE k \in hits : \A n \in hits : n <= k
  IN  Last({k \in 1..Len(paras) : hasPrefix(paras[k], opts, name)})

\* paragraphs.splice(index, 2)
SpliceTwo(paras, k) == Take(paras, k - 1) \o Drop(paras, k + 1)

\* paragraphs.splice(index, 1)
Splice1(paras, k) == Take(paras, k - 1) \o Drop(paras, k)

processProperty(propertyName, paras, opts, sectionData, processValue) ==
  LET name == LowerAtom(propertyName)
      Remove(k) ==
        IF k = 0 THEN [paragraphs |-> paras, sectionData |-> sectionData]
        ELSE [paragraphs |-> Splice1(paras, k),
              sectionData |-> SetProperty(sectionData, name,
                                ApplyProcessValue(processValue,
                                  StripLabel(paras[k], name, TRUE)))]
  IN  Remove(IndexToRemove(name, paras, opts))

\* value.replace(/[-:]?$/, '')
StripMark(w) ==
  IF w # <<>> /\ w[Len(w)] \in {"-", ":"} THEN Take(w, Len(w) - 1) ELSE w

\* value.replace('-', '')
RemoveFirstHyphen(w) ==
  LET k == IndexOf(w, "-")
  IN  IF k = 0 THEN w ELSE Take(w, k - 1) \o Drop(w, k)

\* The keyword test with the phonetic comparison always on.
IsKeywordAlwaysFuzzy(value, opts) ==
  LET v == StripMark(value)
  IN  \/ Spell(ToLowerCase(v)) = "styleguide"
      \/ MetaphoneCompare(<<"Styleguide">>, RemoveFirstHyphen(v))

\* The test of one candidate keyword in checkReference.
IsKeyword(value, opts) ==
  LET v == StripMark(value)
  IN  \/ Spell(ToLowerCase(v)) = "styleguide"
      \/ opts.typos /\ MetaphoneCompare(<<"Styleguide">>, RemoveFirstHyphen(v))

\* checkReference reading the first paragraph instead of the last.
checkReferenceFirstParagraph(paras, opts) ==
  LET Check(words) ==
        IF Len(words) < 2 THEN [found |-> FALSE, ref |-> <<>>]
        ELSE IF IsKeyword(words[1], opts)
          THEN [found |-> TRUE, ref |-> Join(Drop(words, 1), <<SP>>)]
        ELSE IF IsKeyword(words[1] \o words[2], opts)
          THEN [found |-> TRUE, ref |-> Join(Drop(words, 2), <<SP>>)]
        ELSE [found |-> FALSE, ref |-> <<>>]
  IN  Check(SplitWs(Trim(paras[1])))

\* checkReference for a non-empty paragraph list; found is FALSE where the
\* code returns false.
checkReference(paras, opts) ==
  LET lastParagraph == Trim(paras[Len(paras)])
      Check(words) ==
        IF Len(words) < 2 THEN [found |-> FALSE, ref |-> <<>>]
        ELSE IF IsKeyword(words[1], opts)
          THEN [found |-> TRUE, ref |-> Join(Drop(words, 1), <<SP>>)]
        ELSE IF IsKeyword(words[1] \o words[2], opts)
          THEN [found |-> TRUE, ref |-> Join(Drop(words, 2), <<SP>>)]
        ELSE [found |-> FALSE, ref |-> <<>>]
  IN  Check(SplitWs(lastParagraph))

-----------------------------------------------------------------------------
(* createModifiers, createParameters and the entry-list heuristic.         *)

\* Start of the first match of /\s+\-\s+/ in entry, 0 if none.
SeparatorStart(entry) ==
  LET hits == {r \in 1..Len(entry) :
                 /\ IsWs(entry[r])
                 /\ WsRunEnd(entry, r) + 2 <= Len(entry)
                 /\ entry[WsRunEnd(entry, r) + 1] = "-"
                 /\ IsWs(entry[WsRunEnd(entry, r) + 2])}
  IN  IF hits = {} THEN 0 ELSE CHOOSE r \in hits : \A n \in hits : r <= n

\* entry.split(/\s+\-\s+/, 1)[0]
EntryName(entry) ==
  IF SeparatorStart(entry) = 0 THEN entry ELSE Take(entry, SeparatorStart(entry) - 1)

\* rest.replace(/^\s+\-\s+/, '')
StripSeparator(rest) ==
  LET e == WsRunEnd(rest, 1)
  IN  IF e >= 1 /\ e + 2 <= Len(rest) /\ rest[e + 1] = "-" /\ IsWs(rest[e + 2])
      THEN Drop(rest, WsRunEnd(rest, e + 2))
      ELSE rest

\* entry.replace(name, '', 1).replace(/^\s+\-\s+/, ''): the name is a prefix
\* of the entry, so its first occurrence is at the front.
EntryDescription(entry) == StripSeparator(Drop(entry, Len(EntryName(entry))))

createModifiers(lines, opts) ==
  [k \in 1..Len(lines) |->
     [name |-> EntryName(lines[k]),
      description |-> IF opts.markdown THEN MarkedInline(EntryDescription(lines[k]))
                      ELSE EntryDescription(lines[k])]]

createParameters(lines, opts) ==
  [k \in 1..Len(lines) |->
     [name |-> EntryName(lines[k]),
      description |-> IF opts.markdown THEN MarkedInline(EntryDescription(lines[k]))
                      ELSE EntryDescription(lines[k])]]

\* line.match(/^\s*.+?\s+\-\s/g)
IsEntryLine(line) ==
  \E k \in 3..(Len(line) - 1) :
    line[k] = "-" /\ IsWs(line[k - 1]) /\ IsWs(line[k + 1])

\* The loop with the lines that are no entries blanked and not appended.
RECURSIVE MergeContinuationsDropped(_, _, _)
MergeContinuationsDropped(lines, k, lastModifier) ==
  IF k > Len(lines) THEN lines
  ELSE IF IsEntryLine(lines[k]) THEN MergeContinuationsDropped(lines, k + 1, k)
  ELSE MergeContinuationsDropped([lines EXCEPT ![k] = <<>>], k + 1, lastModifier)

\* The loop over the candidate lines from index k on, for a paragraph whose
\* first line is an entry: a line that is no entry is appended to the line
\* at lastModifier and blanked.
RECURSIVE MergeContinuations(_, _, _)
MergeContinuations(lines, k, lastModifier) ==
  IF k > Len(lines) THEN lines
  ELSE IF IsEntryLine(lines[k]) THEN MergeContinuations(lines, k + 1, k)
  ELSE MergeContinuations(
         [lines EXCEPT ![lastModifier] = @ \o <<SP>> \o Trim(lines[k]),
                       ![k] = <<>>],
         k + 1, lastModifier)

\* modifiers.filter(line => line !== '')
RemoveBlank(lines) == SelectSeq(lines, LAMBDA l : l # <<>>)

-----------------------------------------------------------------------------
(* parseChunk: one iteration of the loop over the blocks.                  *)

NoValue == [set |-> FALSE, val |-> <<>>]

\* The temporary section object with the block stored on one line.
NewSectionFlat(raw) ==
  [raw |-> Flatten(raw), header |-> <<>>, description |-> <<>>, modifiers |-> <<>>,
   parameters |-> <<>>, markup |-> NoValue, weight |-> NoValue,
   custom |-> [n \in {} |-> <<>>], reference |-> <<>>,
   deprecated |-> FALSE, experimental |-> FALSE]

\* The temporary section object of a block.
NewSection(raw) ==
  [raw |-> raw, header |-> <<>>, description |-> <<>>, modifiers |-> <<>>,
   parameters |-> <<>>, markup |-> NoValue, weight |-> NoValue,
   custom |-> [n \in {} |-> <<>>], reference |-> <<>>,
   deprecated |-> FALSE, experimental |-> FALSE]

\* The split of a block into paragraphs.
SplitParagraphs(raw) ==
  Split2(Trim(CollapseBlankLines(NormalizeNewlines(raw))), NL, NL)

\* options.custom.forEach(name => processProperty(name, ...))
RECURSIVE ProcessCustom(_, _, _, _)
ProcessCustom(names, paras, opts, sectionData) ==
  IF names = <<>> THEN [paragraphs |-> paras, sectionData |-> sectionData]
  ELSE LET Rest(r) == ProcessCustom(Tail(names), r.paragraphs, opts, r.sectionData)
       IN  Rest(processProperty(names[1], paras, opts, sectionData, "undefined"))

\* The three processProperty passes at the head of the iteration.
ExtractProperties(raw, opts) ==
  LET Custom(r) == ProcessCustom(opts.custom, r.paragraphs, opts, r.sectionData)
      Weight(r) ==
        Custom(processProperty("Weight", r.paragraphs, opts, r.sectionData, "weight"))
  IN  Weight(processProperty("Markup", SplitParagraphs(raw), opts, NewSection(raw),
                             "undefined"))

\* The markup test of the entry paragraph turned round.
MarkupTruthyNegated(s) == ~(s.markup.set /\ s.markup.val # <<>>)

\* Truthiness of currSection.markup: false and '' are falsy.
MarkupTruthy(s) == s.markup.set /\ s.markup.val # <<>>

\* A block of one paragraph treated like a block of two.
DispatchOneAsTwo(s, paras) == [s EXCEPT !.header = paras[1], !.description = paras[1]]

\* A block of one paragraph: the reference is copied into the header.
DispatchOne(s, paras) == [s EXCEPT !.header = s.reference]

\* A block of two paragraphs: a header and a reference.
DispatchTwo(s, paras) == [s EXCEPT !.header = paras[1], !.description = paras[1]]

\* A rejected entry paragraph that is dropped.
FoldBackDropped(description, paragraph) == description

\* A rejected entry paragraph goes back to the end of the description.
FoldBack(description, paragraph) == description \o <<NL, NL>> \o paragraph

\* A block of three or more paragraphs: the second-to-last paragraph is
\* searched for modifiers.
DispatchMany(s, paras, opts) ==
  LET n == Len(paras)
      description == Join(Take(paras, n - 2), <<NL, NL>>)
      lines == Split1(paras[n - 1], NL)
      hasModifiers == IsEntryLine(lines[1])
      merged == RemoveBlank(MergeContinuations(lines, 2, 1))
  IN  IF hasModifiers
      THEN IF MarkupTruthy(s)
           THEN [s EXCEPT !.header = paras[1], !.description = description,
                          !.modifiers = createModifiers(merged, opts)]
           ELSE [s EXCEPT !.header = paras[1], !.description = description,
                          !.parameters = createParameters(merged, opts),
                          !.modifiers = <<>>]
      ELSE [s EXCEPT !.header = paras[1],
                     !.description = FoldBack(description, paras[n - 1]),
                     !.modifiers = <<>>]

\* The paragraph-count dispatch (header, description, modifiers, parameters).
Dispatch(s, paras, opts) ==
  IF Len(paras) = 1 THEN DispatchOne(s, paras)
  ELSE IF Len(paras) = 2 THEN DispatchTwo(s, paras)
  ELSE DispatchMany(s, paras, opts)

\* description.replace(/^.*?\n{2,}/, ''): the first line and the newlines
\* after it go when two or more newlines follow it directly.
RemoveFirstParagraph(d) ==
  LET k == IndexOf(d, NL)
  IN  IF k # 0 /\ k + 1 <= Len(d) /\ d[k + 1] = NL
      THEN Drop(d, CHOOSE e \in (k + 1)..Len(d) :
                     /\ \A m \in k..e : d[m] = NL
                     /\ (e = Len(d) \/ d[e + 1] # NL))
      ELSE d

\* The header split of options.header.
SplitHeader(d) ==
  IF IndexOf2(d, NL, NL) # 0 THEN RemoveFirstParagraph(d) ELSE <<>>

\* Header squash, status flags, header split and Markdown.
Finish(s, opts) ==
  LET d1 == IF opts.header THEN SplitHeader(s.description) ELSE s.description
  IN  [s EXCEPT !.header = Flatten(s.header),
                !.deprecated = hasPrefix(s.description, opts, "Deprecated"),
                !.experimental = hasPrefix(s.description, opts, "Experimental"),
                !.description = IF opts.markdown THEN Marked(d1) ELSE d1]

\* JavaScript values of the markup property: a string, or false.
JsString(text) == [type |-> "string", text |-> text]
JsFalse == [type |-> "boolean", text |-> <<>>]

\* The value parseChunk holds in currSection.markup: false until a Markup
\* paragraph sets a string.
MarkupData(data) == IF data.markup.set THEN JsString(data.markup.val) ELSE JsFalse

\* a || b
JsOr(a, b) == IF a.type = "string" /\ a.text # <<>> THEN a ELSE b

\* new KssSection(data): the defaults of the constructor.
KssSection(data) ==
  [raw |-> data.raw,
   header |-> data.header,
   description |-> data.description,
   deprecated |-> data.deprecated,
   experimental |-> data.experimental,
   reference |-> data.reference,
   weight |-> IF data.weight.set /\ ~data.weight.val.nan THEN data.weight.val.n ELSE 0,
   markup |-> JsOr(MarkupData(data), JsString(<<>>)),
   modifiers |-> data.modifiers,
   parameters |-> data.parameters,
   custom |-> data.custom]

\* KssSection.prototype.markup(), called without an argument.
markup(section) == section.markup

\* One iteration: outcome "throw" (checkReference reads a paragraph of an
\* empty list), "skip" (continue) or "push".
ParseBlock(raw, opts) ==
  LET Referenced(paras, s) ==
        IF s.reference = <<>>
        THEN [outcome |-> "skip", paragraphs |-> paras, section |-> s]
        ELSE [outcome |-> "push", paragraphs |-> paras,
              section |-> Finish(Dispatch(s, paras, opts), opts)]
      Checked(x, c) ==
        Referenced(x.paragraphs,
                   [x.sectionData EXCEPT !.reference = IF c.found THEN c.ref ELSE <<>>])
      Extracted(x) ==
        IF x.paragraphs = <<>>
        THEN [outcome |-> "throw", paragraphs |-> x.paragraphs, section |-> x.sectionData]
        ELSE Checked(x, checkReference(x.paragraphs, opts))
  IN  Extracted(ExtractProperties(raw, opts))

-----------------------------------------------------------------------------
(* findBlocks: the comment block extractor.                                *)

\* commentExpressions, tested on a line without trailing space.
IsSingle(line) == LTrim(line) # <<>> /\ LTrim(line)[1] = "//"
IsMultiStart(line) ==
  LET t == LTrim(line)
  IN  t # <<>> /\ t[1] = "/*" /\ \A k \in 2..Len(t) : t[k] = "*"
IsDocblockStart(line) == LTrim(line) = <<"/*", "*">>
IsMultiFinish(line) == LTrim(line) = <<"*/">>

\* At most one whitespace character off the front: the \s? of the strips.
DropOneWs(s) == IF s # <<>> /\ IsWs(s[1]) THEN Tail(s) ELSE s

\* line.replace(/^\s*\/\/\s?/, '')
StripSingle(line) == DropOneWs(Tail(LTrim(line)))

\* line.replace(/^\s*\*\s?/, '')
StripDocblock(line) ==
  LET t == LTrim(line)
  IN  IF t # <<>> /\ t[1] = "*" THEN DropOneWs(Tail(t))
      ELSE IF t # <<>> /\ t[1] = "*/" THEN <<"/">> \o Tail(t)
      ELSE line

\* The line without any of its leading whitespace.
StripLeading(line, indentAmount) == LTrim(line)

\* line.replace(new RegExp('^' + indentAmount), '', 1)
StripIndent(line, indentAmount) ==
  IF Len(indentAmount) <= Len(line) /\ Take(line, Len(indentAmount)) = indentAmount
  THEN Drop(line, Len(indentAmount))
  ELSE line

\* currentBlock.replace(/^\n+/, '').replace(/\n+$/, '')
RECURSIVE TrimNewlines(_)
TrimNewlines(s) ==
  IF s # <<>> /\ s[1] = NL THEN TrimNewlines(Tail(s))
  ELSE IF s # <<>> /\ s[Len(s)] = NL THEN TrimNewlines(Take(s, Len(s) - 1))
  ELSE s

\* The variables of the loop of findBlocks; indentSet is FALSE while
\* indentAmount is false.
FindBlocksInit ==
  [blocks |-> <<>>, currentBlock |-> <<>>, indentSet |-> FALSE, indentAmount |-> <<>>,
   insideSingleBlock |-> FALSE, insideMultiBlock |-> FALSE, insideDocblock |-> FALSE]

\* The part of the loop body after the single-line test has failed.
FindBlocksRest(f, line) ==
  LET g == IF f.insideSingleBlock
           THEN [f EXCEPT !.blocks = Append(@, TrimNewlines(f.currentBlock)),
                          !.insideSingleBlock = FALSE, !.currentBlock = <<>>]
           ELSE f
  IN  IF (g.insideMultiBlock \/ g.insideDocblock) /\ IsMultiFinish(line)
      THEN [g EXCEPT !.blocks = Append(@, TrimNewlines(g.currentBlock)),
                     !.insideMultiBlock = FALSE, !.insideDocblock = FALSE,
                     !.currentBlock = <<>>, !.indentSet = FALSE, !.indentAmount = <<>>]
      ELSE IF IsDocblockStart(line)
      THEN [g EXCEPT !.insideDocblock = TRUE, !.currentBlock = <<>>]
      ELSE IF g.insideDocblock
      THEN [g EXCEPT !.currentBlock = @ \o <<NL>> \o StripDocblock(line)]
      ELSE IF IsMultiStart(line)
      THEN [g EXCEPT !.insideMultiBlock = TRUE, !.currentBlock = <<>>]
      ELSE IF g.insideMultiBlock
      THEN IF ~g.indentSet /\ line = <<>> THEN g
           ELSE LET indent == IF g.indentSet THEN g.indentAmount
                              ELSE Take(line, FirstNonWs(line) - 1)
                IN  [g EXCEPT !.indentSet = TRUE, !.indentAmount = indent,
                              !.currentBlock = @ \o <<NL>> \o StripIndent(line, indent)]
      ELSE g

\* One pass of the loop body for a raw line.
FindBlocksLine(f, rawLine) ==
  LET line == RTrim(rawLine)
  IN  IF ~f.insideMultiBlock /\ ~f.insideDocblock /\ IsSingle(line)
      THEN [f EXCEPT !.currentBlock =
                        (IF f.insideSingleBlock /\ f.currentBlock # <<>>
                         THEN @ \o <<NL>> ELSE @) \o StripSingle(line),
                     !.insideSingleBlock = TRUE]
      ELSE FindBlocksRest(f, line)

RECURSIVE FindBlocksLoop(_, _, _)
FindBlocksLoop(f, lines, k) ==
  IF k > Len(lines) THEN f
  ELSE FindBlocksLoop(FindBlocksLine(f, lines[k]), lines, k + 1)

\* input.split(/\n|$/g) after the line endings are normalised.
InputLines(text) == Split1(NormalizeNewlines(text), NL)

findBlocks(text) ==
  LET f == FindBlocksLoop(FindBlocksInit, InputLines(text), 1)
  IN  IF f.currentBlock # <<>> THEN Append(f.blocks, TrimNewlines(f.currentBlock))
      ELSE f.blocks

-----------------------------------------------------------------------------
(* The inputs: source text written from paragraphs.                        *)

\* Most paragraphs of the body of a comment block.
MaxBody == 3

HeadOne == <<"Head">>
HeadMore == <<"Head", NL, "more">>
MarkupX == <<"Markup", ":", SP, "x">>
MarkupY == <<"markup", ":", SP, "y">>
Entries == <<":", "hover", SP, "-", SP, "d", NL, SP, "cont", NL, ".f", SP, "-", SP, "e">>
RefOne == <<"styleguide", SP, "1">>
RefTwoWords == <<"Style", SP, "guide", ":", SP, "1", SP, SP, "2">>
RefNoNumber == <<"style", SP, "guide">>
RefTypo == <<"stileguide", SP, "4">>

BodyPool == {HeadOne, HeadMore, MarkupX, MarkupY, Entries, RefOne}
TailPool == {<<>>, RefTwoWords, RefNoNumber, RefTypo}

Bodies == UNION {[1..n -> BodyPool] : n \in 0..MaxBody}

\* The text of a comment: the body paragraphs, then the tail paragraph if
\* there is one, separated by blank lines.
BlockText(body, tail) ==
  Join(IF tail = <<>> THEN body ELSE Append(body, tail), <<NL, NL>>)

\* The text as a run of // lines.
SingleLines(text) ==
  LET ls == Split1(text, NL)
  IN  [k \in 1..Len(ls) |-> IF ls[k] = <<>> THEN <<"//">> ELSE <<"//", SP>> \o ls[k]]

\* The text as a /** docblock with the usual " * " alignment.
DocLines(text) ==
  LET ls == Split1(text, NL)
  IN  <<<<"/*", "*">>>>
      \o [k \in 1..Len(ls) |-> IF ls[k] = <<>> THEN <<SP, "*">> ELSE <<SP, "*", SP>> \o ls[k]]
      \o <<<<SP, "*/">>>>

\* The text as a /* block indented by two spaces.
MultiLines(text) ==
  LET ls == Split1(text, NL)
  IN  <<<<"/*">>>>
      \o [k \in 1..Len(ls) |-> IF ls[k] = <<>> THEN <<>> ELSE <<SP, SP>> \o ls[k]]
      \o <<<<"*/">>>>

CodeLine == <<".f", SP, "{", "}">>

\* A file that documents one more section in a docblock.
OtherDoc == Join(DocLines(<<"Head", NL, NL, "styleguide", SP, "2">>), <<NL>>)
\* A file that documents one more section in a block comment.
OtherMulti == Join(MultiLines(<<"Head", NL, NL, "styleguide", SP, "2">>), <<NL>>)

\* The buffers handed to parse() for a comment text.
Layouts == {"alone", "before", "behind", "after"}
Buffers(layout, text) ==
  LET main == Join(SingleLines(text), <<NL>>)
  IN  CASE layout = "alone"  -> <<main>>
        [] layout = "before" -> <<main \o <<NL>> \o CodeLine \o <<NL>> \o OtherDoc>>
        [] layout = "behind" -> <<OtherDoc \o <<NL>> \o CodeLine \o <<NL>> \o main>>
        [] layout = "after"  -> <<OtherMulti, main>>

-----------------------------------------------------------------------------
(* KssGenerator: the constructor and checkGenerator.                       *)

\* The decimal numerals and the number each stands for.
IsNumeral(a) == \E n \in 0..9 : ToString(n) = a
NumeralValue(a) == CHOOSE n \in 0..9 : ToString(n) = a

\* parseInt(part) for one part of a version string; parseInt(undefined),
\* for a part the string does not have, is NaN.
ParseInt(parts, k) ==
  IF k <= Len(parts) /\ parts[k] # <<>> /\ IsNumeral(parts[k][1])
  THEN Num(NumeralValue(parts[k][1]))
  ELSE NaN

\* a !== b and a > b on numbers: NaN is different from everything and
\* greater than nothing.
NotEqual(a, b) == a.nan \/ b.nan \/ a.n # b.n
Greater(a, b) == ~a.nan /\ ~b.nan /\ a.n > b.n

\* this.API
API == <<"3", ".", "0">>

\* No generator object yet.
NoGenerator ==
  [constructed |-> FALSE, version |-> [passed |-> FALSE, text |-> <<>>],
   implementsAPI |-> <<>>, checked |-> "none"]

\* The compatibility test with the minor numbers left out.
IsCompatibleMajorOnly(api, implementsAPI) ==
  /\ implementsAPI # <<"undefined">>
  /\ ~NotEqual(ParseInt(Split1(implementsAPI, "."), 1), ParseInt(Split1(api, "."), 1))

\* isCompatible at the end of checkGenerator.
IsCompatible(api, implementsAPI) ==
  /\ implementsAPI # <<"undefined">>
  /\ ~(\/ NotEqual(ParseInt(Split1(implementsAPI, "."), 1), ParseInt(Split1(api, "."), 1))
       \/ Greater(ParseInt(Split1(implementsAPI, "."), 2), ParseInt(Split1(api, "."), 2)))

\* new KssGenerator(version, options)
Construct ==
  /\ ~generator.constructed
  /\ generator' = [generator EXCEPT
       !.constructed = TRUE,
       !.implementsAPI = IF generator.version.passed THEN generator.version.text
                         ELSE <<"undefined">>]
  /\ UNCHANGED <<input, options, pc, i, blocks, j, paragraphs, currSection, kept,
                 sections, result, fs, cloning, fb, kssSection, generating>>

\* generator.checkGenerator(): the promise it returns is resolved or
\* rejected.
CheckGenerator ==
  /\ generator.constructed
  /\ generator.checked = "none"
  /\ generator' = [generator EXCEPT
       !.checked = IF IsCompatible(API, generator.implementsAPI) THEN "resolved"
                   ELSE "rejected"]
  /\ UNCHANGED <<input, options, pc, i, blocks, j, paragraphs, currSection, kept,
                 sections, result, fs, cloning, fb, kssSection, generating>>

-----------------------------------------------------------------------------
(* KssGenerator.clone: fs.statAsync, then fs.copyAsync.                    *)

\* What the destination path is on disk: nothing, a directory, a path
\* below a directory that may not be searched, a path below a file.
Destinations == {"absent", "directory", "denied", "below file"}

\* The file system before anything is copied.
NoFiles == [destination |-> "absent", copied |-> FALSE]

\* What fs.stat settles with for the destination: the stats, or an Error
\* with a code.
NoResult == [error |-> FALSE, code |-> "", message |-> ""]
Stats == [error |-> FALSE, code |-> "", message |-> "stats"]
ErrorOf(code) == [error |-> TRUE, code |-> code, message |-> code]
StatResult(destination) ==
  CASE destination = "absent" -> ErrorOf("ENOENT")
    [] destination = "directory" -> Stats
    [] destination = "denied" -> ErrorOf("EACCES")
    [] destination = "below file" -> ErrorOf("ENOTDIR")

\* No call of clone yet.
NoClone ==
  [pc |-> "idle", result |-> NoResult, copyStarted |-> FALSE,
   settled |-> "pending", reason |-> NoResult]

\* The copy is started for every Error, whatever its code.
ShouldCopyAnyError(statResult) == statResult.error

\* if (result.code === 'ENOENT'), for a result that is an Error.
ShouldCopy(statResult) == statResult.error /\ statResult.code = "ENOENT"

\* clone(templatePath, destinationPath): fs.statAsync is called.
Clone ==
  /\ generator.constructed
  /\ cloning.pc = "idle"
  /\ cloning' = [cloning EXCEPT !.pc = "stat"]
  /\ UNCHANGED <<input, options, pc, i, blocks, j, paragraphs, currSection, kept,
                 sections, result, generator, fs, fb, kssSection, generating>>

\* The stat settles; .catch hands an error on as the value.
StatSettles ==
  /\ cloning.pc = "stat"
  /\ cloning' = [cloning EXCEPT !.pc = "then", !.result = StatResult(fs.destination)]
  /\ UNCHANGED <<input, options, pc, i, blocks, j, paragraphs, currSection, kept,
                 sections, result, generator, fs, fb, kssSection, generating>>

\* The .then handler of clone.
CloneThen ==
  /\ cloning.pc = "then"
  /\ cloning' =
       IF ~cloning.result.error
       THEN [cloning EXCEPT !.pc = "done", !.settled = "rejected",
                            !.reason = ErrorOf("This folder already exists")]
       ELSE IF ShouldCopy(cloning.result)
       THEN [cloning EXCEPT !.pc = "copy", !.copyStarted = TRUE]
       ELSE [cloning EXCEPT !.pc = "done", !.settled = "rejected",
                            !.reason = cloning.result]
  /\ UNCHANGED <<input, options, pc, i, blocks, j, paragraphs, currSection, kept,
                 sections, result, generator, fs, fb, kssSection, generating>>

\* fs.copyAsync settles: the template is copied, or the copy fails.
CopySettles ==
  /\ cloning.pc = "copy"
  /\ \/ /\ fs' = [fs EXCEPT !.destination = "directory", !.copied = TRUE]
        /\ cloning' = [cloning EXCEPT !.pc = "done", !.settled = "resolved"]
     \/ /\ fs' = fs
        /\ cloning' = [cloning EXCEPT !.pc = "done", !.settled = "rejected",
                                      !.reason = ErrorOf("copy failed")]
  /\ UNCHANGED <<input, options, pc, i, blocks, j, paragraphs, currSection, kept,
                 sections, result, generator, fb, kssSection, generating>>

-----------------------------------------------------------------------------
(* findBlocks, one line of its loop at a time.                             *)

\* No call of findBlocks is under way.
NoFindBlocks == [lines |-> <<>>, k |-> 1, f |-> FindBlocksInit, returned |-> TRUE,
                 blocks |-> <<>>]

\* The loop body for line fb.k.
FindBlocksStep ==
  /\ ~fb.returned
  /\ fb.k <= Len(fb.lines)
  /\ fb' = [fb EXCEPT !.f = FindBlocksLine(fb.f, fb.lines[fb.k]), !.k = fb.k + 1]
  /\ UNCHANGED <<input, options, pc, i, blocks, j, paragraphs, currSection, kept,
                 sections, result, generator, fs, cloning, kssSection, generating>>

\* After the loop: the last block is added and the blocks are returned.
FindBlocksReturn ==
  /\ ~fb.returned
  /\ fb.k > Len(fb.lines)
  /\ fb' = [fb EXCEPT !.returned = TRUE,
                      !.blocks = IF fb.f.currentBlock # <<>>
                                 THEN Append(fb.f.blocks, TrimNewlines(fb.f.currentBlock))
                                 ELSE fb.f.blocks]
  /\ UNCHANGED <<input, options, pc, i, blocks, j, paragraphs, currSection, kept,
                 sections, result, generator, fs, cloning, kssSection, generating>>

-----------------------------------------------------------------------------
(* KssSection.prototype.reference and referenceURI.                        *)

\* The references of the section objects.
References ==
  {<<"1">>, <<"1", ".", "2">>, <<"Style", SP, "guide">>,
   <<"Style", SP, "-", SP, "guide">>, <<"x", ".", SP, "y">>}

\* The atoms of the class \w: the words and the numerals.
IsWordAtom(a) == IsAlpha(a) \/ IsNumeral(a)

\* .replace(/ \- /g, '-')
RECURSIVE ReplaceSpacedHyphen(_)
ReplaceSpacedHyphen(s) ==
  IF s = <<>> THEN <<>>
  ELSE IF Len(s) >= 3 /\ s[1] = SP /\ s[2] = "-" /\ s[3] = SP
  THEN <<"-">> \o ReplaceSpacedHyphen(Drop(s, 3))
  ELSE <<s[1]>> \o ReplaceSpacedHyphen(Tail(s))

\* .replace(/[^\w-]+/g, '-'): every run of other characters becomes one
\* hyphen.
RECURSIVE ReplaceNonWord(_)
ReplaceNonWord(s) ==
  IF s = <<>> THEN <<>>
  ELSE IF IsWordAtom(s[1]) \/ s[1] = "-" THEN <<s[1]>> \o ReplaceNonWord(Tail(s))
  ELSE IF Len(s) >= 2 /\ ~(IsWordAtom(s[2]) \/ s[2] = "-") THEN ReplaceNonWord(Tail(s))
  ELSE <<"-">> \o ReplaceNonWord(Tail(s))

\* encodeURI: a space is escaped; letters, numerals, '-' and '.' stay.
EncodeURI(s) == [k \in 1..Len(s) |-> IF s[k] = SP THEN "%20" ELSE s[k]]

\* The value referenceURI() computes from a reference.
ReferenceURIOf(reference) ==
  EncodeURI(ToLowerCase(ReplaceNonWord(ReplaceSpacedHyphen(reference))))

\* No section object.
NoSectionObject ==
  [constructed |-> FALSE, reference |-> <<>>, referenceURI |-> <<>>,
   returned |-> <<>>, last |-> "none", explicit |-> FALSE, referenceSet |-> FALSE]

\* new KssSection({reference: reference})
NewKssSection(reference) ==
  [NoSectionObject EXCEPT !.constructed = TRUE, !.reference = reference]

\* section.reference(reference), with an argument
SetReference ==
  /\ kssSection.constructed
  /\ \E reference \in References :
       kssSection' = [kssSection EXCEPT !.reference = reference, !.last = "reference",
                                        !.referenceSet = TRUE]
  /\ UNCHANGED <<input, options, pc, i, blocks, j, paragraphs, currSection, kept,
                 sections, result, generator, fs, cloning, fb, generating>>

\* section.referenceURI(), without an argument: the value is computed when
\* none is stored, stored, and returned.
GetReferenceURI ==
  /\ kssSection.constructed
  /\ \E uri \in {IF kssSection.referenceURI = <<>>
                 THEN ReferenceURIOf(kssSection.reference)
                 ELSE kssSection.referenceURI} :
       kssSection' = [kssSection EXCEPT !.referenceURI = uri, !.returned = uri,
                                        !.last = "referenceURI"]
  /\ UNCHANGED <<input, options, pc, i, blocks, j, paragraphs, currSection, kept,
                 sections, result, generator, fs, cloning, fb, generating>>

\* section.referenceURI(referenceURI), with an argument
SetReferenceURI ==
  /\ kssSection.constructed
  /\ \E uri \in {ReferenceURIOf(r) : r \in References} \cup {<<"custom">>} :
       kssSection' = [kssSection EXCEPT !.referenceURI = uri, !.last = "set referenceURI",
                                        !.explicit = TRUE]
  /\ UNCHANGED <<input, options, pc, i, blocks, j, paragraphs, currSection, kept,
                 sections, result, generator, fs, cloning, fb, generating>>

-----------------------------------------------------------------------------
(* kssHandlebarsGenerator.generate and generatePage.                       *)

\* section.reference().split(/(?:\.|\ \-\ )/)[0]
RootOf(reference) ==
  LET stops == {k \in 1..Len(reference) :
                  \/ reference[k] = "."
                  \/ k + 2 <= Len(reference) /\ reference[k] = SP
                       /\ reference[k + 1] = "-" /\ reference[k + 2] = SP}
  IN  IF stops = {} THEN reference
      ELSE Take(reference, (CHOOSE k \in stops : \A n \in stops : k <= n) - 1)

\* sectionRoots after the map over the first n sections: each root once,
\* in the order it was met first.
RECURSIVE SectionRoots(_, _)
SectionRoots(list, n) ==
  IF n = 0 THEN <<>>
  ELSE IF \E k \in 1..Len(SectionRoots(list, n - 1)) :
            SectionRoots(list, n - 1)[k] = RootOf(list[n].reference)
  THEN SectionRoots(list, n - 1)
  ELSE Append(SectionRoots(list, n - 1), RootOf(list[n].reference))

\* The page reference of the homepage.
Homepage == <<"styleGuide.homepage">>

\* The promise a section is mapped to, as generate() leaves it: resolved
\* for a section without markup, findPartial resolved for inline markup,
\* the file lookup under way for a markup file.
TaskStarted(section) ==
  CASE section.markup = "none" -> "skipped"
    [] section.markup = "inline" -> "found"
    [] OTHER -> "pending"

\* The pages are started as soon as no lookup is under way any more.
AllSettled(tasks) == \A k \in 1..Len(tasks) : tasks[k] # "pending"

\* Promise.all(sections.map(...)).then: every promise of the map is
\* resolved.
AllResolved(tasks) == \A k \in 1..Len(tasks) : tasks[k] \in {"skipped", "registered"}

\* No call of generate yet.
NoGeneration ==
  [pc |-> "idle", sections |-> <<>>, tasks |-> <<>>, sectionRoots |-> <<>>,
   partials |-> {}, pages |-> [p \in {} |-> "none"], settled |-> "pending"]

\* generate(styleGuide) up to the return of the promise.
Generate ==
  /\ generating.pc = "idle"
  /\ generating' =
       IF Len(generating.sections) = 0
       THEN [generating EXCEPT !.pc = "done", !.settled = "rejected"]
       ELSE [generating EXCEPT
               !.pc = "lookups",
               !.tasks = [k \in 1..Len(generating.sections) |->
                            TaskStarted(generating.sections[k])],
               !.sectionRoots = SectionRoots(generating.sections,
                                             Len(generating.sections))]
  /\ UNCHANGED <<input, options, pc, i, blocks, j, paragraphs, currSection, kept,
                 sections, result, generator, fs, cloning, fb, kssSection>>

\* The glob and the read of the markup file of section k settle: with the
\* contents, with nothing found, or with an error.
LookupSettles(k) ==
  /\ generating.pc \in {"lookups", "rejected"}
  /\ generating.tasks[k] = "pending"
  /\ generating' = [generating EXCEPT
       !.tasks[k] = IF generating.sections[k].markup = "file fails" THEN "failed"
                    ELSE "found"]
  /\ UNCHANGED <<input, options, pc, i, blocks, j, paragraphs, currSection, kept,
                 sections, result, generator, fs, cloning, fb, kssSection>>

\* findPartial.then: the partial of section k is registered and recorded
\* under the reference.
RegisterPartial(k) ==
  /\ generating.pc \in {"lookups", "rejected"}
  /\ generating.tasks[k] = "found"
  /\ generating' = [generating EXCEPT
       !.tasks[k] = "registered",
       !.partials = @ \cup {generating.sections[k].reference}]
  /\ UNCHANGED <<input, options, pc, i, blocks, j, paragraphs, currSection, kept,
                 sections, result, generator, fs, cloning, fb, kssSection>>

\* Promise.all of the map rejects with the first failed lookup; the other
\* lookups go on.
LookupsReject ==
  /\ generating.pc = "lookups"
  /\ \E k \in 1..Len(generating.tasks) : generating.tasks[k] = "failed"
  /\ generating' = [generating EXCEPT !.pc = "rejected", !.settled = "rejected"]
  /\ UNCHANGED <<input, options, pc, i, blocks, j, paragraphs, currSection, kept,
                 sections, result, generator, fs, cloning, fb, kssSection>>

\* The .then of generate: generatePage is called for every root and for
\* the homepage.
StartPages ==
  /\ generating.pc = "lookups"
  /\ AllResolved(generating.tasks)
  /\ generating' = [generating EXCEPT
       !.pc = "pages",
       !.pages = [p \in {generating.sectionRoots[k] :
                           k \in 1..Len(generating.sectionRoots)} \cup {Homepage} |->
                    "started"]]
  /\ UNCHANGED <<input, options, pc, i, blocks, j, paragraphs, currSection, kept,
                 sections, result, generator, fs, cloning, fb, kssSection>>

\* getFileInfo.then of generatePage: the page is rendered and written, or
\* the write (for the homepage, the read before it) fails.
PageSettles(p) ==
  /\ generating.pages[p] = "started"
  /\ \E outcome \in {"written", "failed"} :
       generating' = [generating EXCEPT !.pages[p] = outcome]
  /\ UNCHANGED <<input, options, pc, i, blocks, j, paragraphs, currSection, kept,
                 sections, result, generator, fs, cloning, fb, kssSection>>

\* Promise.all(pagePromises) settles.
PagesSettle ==
  /\ generating.pc = "pages"
  /\ \/ /\ \A p \in DOMAIN generating.pages : generating.pages[p] = "written"
        /\ generating' = [generating EXCEPT !.pc = "done", !.settled = "resolved"]
     \/ /\ \E p \in DOMAIN generating.pages : generating.pages[p] = "failed"
        /\ generating' = [generating EXCEPT !.pc = "done", !.settled = "rejected"]
  /\ UNCHANGED <<input, options, pc, i, blocks, j, paragraphs, currSection, kept,
                 sections, result, generator, fs, cloning, fb, kssSection>>

-----------------------------------------------------------------------------
(* parse(): the state machine.                                             *)

NoSection == NewSection(<<>>)

Init ==
  /\ \E body \in Bodies, tail \in TailPool, layout \in Layouts :
       /\ layout # "alone" => Len(body) <= 1
       /\ input = Buffers(layout, BlockText(body, tail))
  /\ \E markdown \in BOOLEAN, header \in BOOLEAN, typos \in BOOLEAN :
       options = [markdown |-> markdown, header |-> header, typos |-> typos,
                  custom |-> <<>>]
  /\ pc = "parse"
  /\ i = 1
  /\ blocks = <<>>
  /\ j = 1
  /\ paragraphs = <<>>
  /\ currSection = NoSection
  /\ kept = "none"
  /\ sections = <<>>
  /\ result = [called |-> FALSE, error |-> FALSE, sections |-> <<>>]
  /\ generator = NoGenerator
  /\ fs = NoFiles
  /\ cloning = NoClone
  /\ fb = NoFindBlocks
  /\ kssSection = NoSectionObject
  /\ generating = NoGeneration

\* parse() enters parseChunk for buffer i: findBlocks runs.
ParseChunkEnter ==
  /\ pc = "parse"
  /\ i <= Len(input)
  /\ blocks' = findBlocks(input[i])
  /\ j' = 1
  /\ pc' = "chunk"
  /\ UNCHANGED <<input, options, i, paragraphs, currSection, kept, sections, result, generator, fs, cloning, fb, kssSection, generating>>

\* The new Section put in front of the others.
SectionsUnshift(list, section) == <<section>> \o list

\* styleGuide.sections.push(currSection)
SectionsPush(list, section) == Append(list, section)

\* One iteration of the loop over the blocks of buffer i.
ParseChunkBlock ==
  /\ pc = "chunk"
  /\ j <= Len(blocks)
  /\ \E r \in {ParseBlock(blocks[j], options)} :
         /\ paragraphs' = r.paragraphs
         /\ currSection' = r.section
         /\ kept' = r.outcome
         /\ sections' = IF r.outcome = "push"
                        THEN SectionsPush(sections, KssSection(r.section))
                        ELSE sections
         /\ pc' = IF r.outcome = "throw" THEN "threw" ELSE "chunk"
  /\ j' = j + 1
  /\ UNCHANGED <<input, options, i, blocks, result, generator, fs, cloning, fb, kssSection, generating>>

\* parseChunk returns the style guide; parse() moves to the next buffer.
ParseChunkReturn ==
  /\ pc = "chunk"
  /\ j > Len(blocks)
  /\ i' = i + 1
  /\ pc' = "parse"
  /\ UNCHANGED <<input, options, blocks, j, paragraphs, currSection, kept, sections, result, generator, fs, cloning, fb, kssSection, generating>>

\* The callback called from inside the loop over the buffers.
CallbackInLoop ==
  /\ pc = "parse"
  /\ result' = [called |-> TRUE, error |-> FALSE, sections |-> sections]
  /\ pc' = "done"
  /\ UNCHANGED <<input, options, i, blocks, j, paragraphs, currSection, kept, sections, generator, fs, cloning, fb, kssSection, generating>>

\* callback(null, new KssStyleGuide(styleGuide))
Callback ==
  /\ pc = "parse"
  /\ i > Len(input)
  /\ result' = [called |-> TRUE, error |-> FALSE, sections |-> sections]
  /\ pc' = "done"
  /\ UNCHANGED <<input, options, i, blocks, j, paragraphs, currSection, kept, sections, generator, fs, cloning, fb, kssSection, generating>>

Next == ParseChunkEnter \/ ParseChunkBlock \/ ParseChunkReturn \/ Callback

Spec == Init /\ [][Next]_vars

-----------------------------------------------------------------------------
(* Properties.  After an iteration of parseChunk, currSection.raw is the   *)
(* block it handled, paragraphs is what the property passes left of it and  *)
(* kept tells whether the block was pushed, skipped or made parse() throw.  *)

Max(S) == CHOOSE m \in S : \A n \in S : n <= m
Least(S) == CHOOSE m \in S : \A n \in S : m <= n

\* An iteration has run.
Handled == kept # "none"
\* The iteration pushed a Section, which is the last of the output.
Pushed == kept = "push" /\ sections # <<>>
LastSection == sections[Len(sections)]

\* The concatenation of the first n words.
FirstWords(w, n) == IF n = 1 THEN w[1] ELSE w[1] \o w[2]

\* The word is the styleguide keyword: exactly (case and one trailing mark
\* aside), or by sound when typos are accepted.
SpellsKeyword(word, opts) ==
  \/ Spell(ToLowerCase(StripMark(word))) = "styleguide"
  \/ opts.typos /\ Metaphone(RemoveFirstHyphen(StripMark(word))) = Metaphone(<<"Styleguide">>)

\* The numbers n of leading words of the paragraph that spell the keyword.
KeywordLengths(paragraph, opts) ==
  LET w == SplitWs(Trim(paragraph))
  IN  {n \in 1..2 : Len(w) >= 2 /\ SpellsKeyword(FirstWords(w, n), opts)}

\* The paragraph carries the marker followed by at least one more word.
CarriesMarker(paragraph, opts) ==
  \E n \in KeywordLengths(paragraph, opts) : n < Len(SplitWs(Trim(paragraph)))

\* C1: every Section in the output has a non-empty reference, and a block is
\* pushed only if the last of the paragraphs left by the property passes
\* carries the styleguide marker followed by at least one more word.
C1_ReferenceRequired ==
  /\ \A k \in 1..Len(sections) : sections[k].reference # <<>>
  /\ \A k \in 1..Len(result.sections) : result.sections[k].reference # <<>>
  /\ kept = "push" =>
       /\ paragraphs # <<>>
       /\ CarriesMarker(paragraphs[Len(paragraphs)], options)

\* A block with the marker in its first paragraph and none in its last was
\* dropped, and the block after it was pushed.
C1_Witness ==
  /\ Pushed
  /\ j = 3
  /\ Len(sections) = 1
  /\ LET ps == SplitParagraphs(blocks[1])
     IN  /\ Len(ps) = 2
         /\ CarriesMarker(ps[1], options)
         /\ ~CarriesMarker(ps[2], options)

\* C2: no Section has both modifiers and parameters; a pushed Section has
\* modifiers only if its block had a Markup property and parameters only if
\* it had none.
C2_ModifiersXorParameters ==
  /\ \A k \in 1..Len(sections) :
       ~(sections[k].modifiers # <<>> /\ sections[k].parameters # <<>>)
  /\ Pushed =>
       /\ LastSection.modifiers # <<>> => currSection.markup.set
       /\ LastSection.parameters # <<>> => ~currSection.markup.set

\* A Section with modifiers was pushed for a block with a Markup property.
C2_Witness ==
  /\ Pushed
  /\ LastSection.modifiers # <<>>
  /\ currSection.markup.set
  /\ Len(paragraphs) >= 3

\* C3: a block left without paragraphs by the property passes is skipped
\* and parse() does not throw.
C3_EmptyBlockSkipped ==
  (Handled /\ paragraphs = <<>>) => (kept = "skip" /\ pc # "threw")

\* The paragraphs of the handled block before the property passes.
OriginalParagraphs == SplitParagraphs(currSection.raw)

\* The indices of the paragraphs of ps that match a label.
Matching(ps, label) == {k \in 1..Len(ps) : hasPrefix(ps[k], options, label)}

\* The text of a paragraph after its Markup label.
MarkupValue(paragraph) == StripLabel(paragraph, "markup", TRUE)

\* The block ps had several Markup paragraphs (and no Weight paragraph): the
\* value is the one of paragraph k and paragraph k is the one removed.
SeveralMatchesTake(ps, k) ==
  /\ currSection.markup.set
  /\ currSection.markup.val = MarkupValue(ps[k])
  /\ paragraphs = Splice1(ps, k)

\* C4 as stated: of several paragraphs that match Markup the first gives the
\* value and is the one removed.
C4_FirstMatchTaken ==
  Handled =>
    \A ps \in {OriginalParagraphs} : \A M \in {Matching(ps, "Markup")} :
      (Cardinality(M) >= 2 /\ Matching(ps, "Weight") = {}) =>
        SeveralMatchesTake(ps, Least(M))

\* C4 amended: of several paragraphs that match Markup the last gives the
\* value and is the only one removed; every earlier one stays in the list.
C4_LastMatchTaken ==
  Handled =>
    \A ps \in {OriginalParagraphs} : \A M \in {Matching(ps, "Markup")} :
      (Cardinality(M) >= 2 /\ Matching(ps, "Weight") = {}) =>
        SeveralMatchesTake(ps, Max(M))

\* Two paragraphs with different Markup values were in the handled block.
C4_Witness ==
  /\ Handled
  /\ currSection.markup.set
  /\ \E ps \in {OriginalParagraphs} : \E M \in {Matching(ps, "Markup")} :
       /\ Cardinality(M) >= 2
       /\ MarkupValue(ps[Least(M)]) # MarkupValue(ps[Max(M)])

\* The paragraphs with one index taken out, in their order.
Without(ps, k) == [n \in 1..(Len(ps) - 1) |-> IF n < k THEN ps[n] ELSE ps[n + 1]]

\* C5: a property with no matching paragraph stays absent and takes nothing
\* from the list (a block with no property at all keeps its list and its
\* section data); a property with a match takes exactly one paragraph, a
\* matching one, and the others keep their order.
C5_PropertyFrame ==
  Handled =>
    \A ps \in {OriginalParagraphs} :
      \A M \in {Matching(ps, "Markup")}, W \in {Matching(ps, "Weight")} :
        /\ M = {} => ~currSection.markup.set
        /\ W = {} => ~currSection.weight.set
        /\ (M = {} /\ W = {}) =>
             /\ paragraphs = ps
             /\ kept = "skip" => currSection = NewSection(currSection.raw)
        /\ (M # {} /\ W = {}) =>
             /\ currSection.markup.set
             /\ \E k \in M : paragraphs = Without(ps, k)

\* A Markup paragraph was taken out from between two other paragraphs.
C5_Witness ==
  /\ Handled
  /\ \E ps \in {OriginalParagraphs} :
       /\ Len(ps) >= 3
       /\ \E k \in 2..(Len(ps) - 1) :
            /\ hasPrefix(ps[k], options, "Markup")
            /\ paragraphs = Without(ps, k)

\* The reference the claim describes for a last paragraph: absent (empty)
\* with fewer than two words or no keyword, else the words after the
\* keyword joined by single spaces.
ExpectedReference(paragraph, opts) ==
  LET w == SplitWs(Trim(paragraph))
      ns == KeywordLengths(paragraph, opts)
  IN  IF ns = {} THEN <<>> ELSE Join(Drop(w, Least(ns)), <<SP>>)

\* C6: the reference found by checkReference is the one described.
C6_CheckReference ==
  kept \in {"skip", "push"} =>
    currSection.reference = ExpectedReference(paragraphs[Len(paragraphs)], options)

\* A reference was found behind a misspelt keyword with typos accepted.
C6_Witness ==
  /\ kept = "push"
  /\ options.typos
  /\ paragraphs[Len(paragraphs)] = RefTypo
  /\ currSection.reference = <<"4">>

\* C7: a pushed block of one paragraph has its reference as header, an empty
\* description and no modifiers or parameters.
C7_OneParagraph ==
  (Pushed /\ Len(paragraphs) = 1) =>
    /\ LastSection.header = LastSection.reference
    /\ LastSection.description = <<>>
    /\ LastSection.modifiers = <<>>
    /\ LastSection.parameters = <<>>

\* A block of one paragraph was pushed.
C7_Witness == Pushed /\ Len(paragraphs) = 1 /\ LastSection.header # <<>>

\* The text has no newline.
OneLine(text) == \A k \in 1..Len(text) : text[k] # NL

\* The first paragraph on one line.
FirstParagraphFlat == [k \in 1..Len(paragraphs[1]) |->
                         IF paragraphs[1][k] = NL THEN SP ELSE paragraphs[1][k]]

\* C8 as stated: a pushed block of two paragraphs has the flattened first
\* paragraph as header, no entries, and a description that is empty with the
\* header split and the first paragraph without it.
C8_TwoParagraphs ==
  (Pushed /\ Len(paragraphs) = 2) =>
    /\ LastSection.header = FirstParagraphFlat
    /\ OneLine(LastSection.header)
    /\ LastSection.modifiers = <<>>
    /\ LastSection.parameters = <<>>
    /\ LastSection.description = IF options.header THEN <<>> ELSE paragraphs[1]

\* C8 amended: without the header split the description is the first
\* paragraph as rendered by marked when Markdown is on, and the first
\* paragraph itself when it is off.
C8_TwoParagraphsRendered ==
  (Pushed /\ Len(paragraphs) = 2) =>
    /\ LastSection.header = FirstParagraphFlat
    /\ OneLine(LastSection.header)
    /\ LastSection.modifiers = <<>>
    /\ LastSection.parameters = <<>>
    /\ LastSection.description =
         IF options.header THEN <<>>
         ELSE IF options.markdown THEN <<"<p>">> \o paragraphs[1] \o <<"</p>", NL>>
         ELSE paragraphs[1]

\* A block of two paragraphs with a first paragraph of two lines was pushed
\* with Markdown on and the header split off.
C8_Witness ==
  /\ Pushed
  /\ Len(paragraphs) = 2
  /\ ~OneLine(paragraphs[1])
  /\ options.markdown
  /\ ~options.header

\* The second-to-last paragraph of the handled block, by lines.
CandidateLines == Split1(paragraphs[Len(paragraphs) - 1], NL)

\* The paragraph is accepted as an entry list: its first line is an entry.
EntryListAccepted == IsEntryLine(CandidateLines[1])

\* The lines of the paragraph that start an entry.
EntryLines == SelectSeq(CandidateLines, IsEntryLine)

\* The entries of the pushed Section and its other, unused list.
Entries9 == IF currSection.markup.set THEN LastSection.modifiers ELSE LastSection.parameters
Unused9 == IF currSection.markup.set THEN LastSection.parameters ELSE LastSection.modifiers

\* The paragraphs strictly between the first and the second-to-last.
MiddleParagraphs == SubSeq(paragraphs, 2, Len(paragraphs) - 2)

\* C9 as stated: a pushed block of three or more paragraphs with an accepted
\* entry list has the first paragraph as header, with the header split on
\* and Markdown off exactly the middle paragraphs as description, and one
\* entry per entry line in line order, as modifiers with markup and as
\* parameters without.
C9_EntryList ==
  (Pushed /\ Len(paragraphs) >= 3 /\ EntryListAccepted) =>
    /\ LastSection.header = FirstParagraphFlat
    /\ (options.header /\ ~options.markdown) =>
         LastSection.description = Join(MiddleParagraphs, <<NL, NL>>)
    /\ Len(Entries9) = Len(EntryLines)
    /\ \A k \in 1..Len(Entries9) : Entries9[k].name = EntryName(EntryLines[k])
    /\ Unused9 = <<>>

\* The paragraphs of a description: the <p> elements of a rendered one, the
\* blank-line separated parts of a plain one.
RECURSIVE RenderedParagraphs(_)
RenderedParagraphs(d) ==
  IF d = <<>> \/ IndexOf(d, "</p>") = 0 THEN <<>>
  ELSE <<SubSeq(d, 2, IndexOf(d, "</p>") - 1)>>
       \o RenderedParagraphs(Drop(d, IndexOf(d, "</p>") + 1))

DescriptionParagraphs ==
  IF options.markdown THEN RenderedParagraphs(LastSection.description)
  ELSE IF LastSection.description = <<>> THEN <<>>
  ELSE Split2(LastSection.description, NL, NL)

\* C10: a pushed block of three or more paragraphs whose second-to-last
\* paragraph does not start with an entry has no modifiers and no
\* parameters, that paragraph is the last paragraph of the description,
\* unchanged, and parse() has not thrown.
C10_RejectedEntryList ==
  (Pushed /\ Len(paragraphs) >= 3 /\ ~EntryListAccepted) =>
    /\ LastSection.modifiers = <<>>
    /\ LastSection.parameters = <<>>
    /\ DescriptionParagraphs # <<>>
    /\ DescriptionParagraphs[Len(DescriptionParagraphs)] = paragraphs[Len(paragraphs) - 1]
    /\ pc # "threw"

\* A rejected paragraph of two lines was appended behind another paragraph
\* of the description.
C10_Witness ==
  /\ Pushed
  /\ Len(paragraphs) >= 3
  /\ ~EntryListAccepted
  /\ Len(CandidateLines) = 2
  /\ Len(DescriptionParagraphs) >= 2

\* The description as the paragraph dispatch computed it for the pushed
\* block, before the header split and the renderer.
ComputedDescription == Dispatch(currSection, paragraphs, options).description

\* The text has a blank-line boundary: two newlines in a row.
HasBoundary(d) == \E k \in 1..(Len(d) - 1) : d[k] = NL /\ d[k + 1] = NL

\* The text behind the first blank-line boundary.
AfterFirstBoundary(d) ==
  LET from(k) == Drop(d, Max({e \in k..Len(d) : \A m \in k..e : d[m] = NL}))
  IN  from(Least({k \in 1..(Len(d) - 1) : d[k] = NL /\ d[k + 1] = NL}))

\* What the renderer step makes of a description.
Rendered(d) == IF options.markdown THEN Marked(d) ELSE d

\* C11 as stated: with the header split on, the description of a pushed
\* Section is the computed description without everything up to and
\* including its first blank-line boundary, whatever the number of lines of
\* the first paragraph, and empty when it has no boundary; with the split
\* off it is the computed description (as the renderer step leaves it).
C11_HeaderSplit ==
  Pushed =>
    \A d \in {ComputedDescription} :
      LastSection.description =
        Rendered(IF ~options.header THEN d
                 ELSE IF HasBoundary(d) THEN AfterFirstBoundary(d)
                 ELSE <<>>)

\* The same for the blocks whose first paragraph is one line.
C11_OneLineFirstParagraph ==
  (Pushed /\ OneLine(paragraphs[1])) => C11_HeaderSplit

-----------------------------------------------------------------------------
(* Blocks with status labels and weights.                                  *)

DeprecatedX == <<"deprecated", ":", SP, "x">>
ExperimentalX == <<"Experimental", ":", SP, "x">>
\* The label behind another word of the line.
DeprecatedMidLine == <<"Head", SP, "Deprecated", ":", SP, "x">>
\* The label at the start of the second line of a paragraph.
DeprecatedSecondLine == <<"Head", NL, "Deprecated", ":", SP, "x">>
WeightTwo == <<"Weight", ":", SP, "2">>
WeightAbc == <<"weight", ":", SP, "x">>

StatusPool == {HeadOne, DeprecatedX, ExperimentalX, DeprecatedMidLine,
               DeprecatedSecondLine, WeightTwo, WeightAbc}
StatusBodies == UNION {[1..n -> StatusPool] : n \in 0..MaxBody}

\* parse() called with one buffer: a block of status and weight paragraphs
\* that ends with a reference.
InitStatus ==
  /\ \E body \in StatusBodies : input = Buffers("alone", BlockText(body, RefOne))
  /\ \E markdown \in BOOLEAN, header \in BOOLEAN, typos \in BOOLEAN :
       options = [markdown |-> markdown, header |-> header, typos |-> typos,
                  custom |-> <<>>]
  /\ pc = "parse"
  /\ i = 1
  /\ blocks = <<>>
  /\ j = 1
  /\ paragraphs = <<>>
  /\ currSection = NoSection
  /\ kept = "none"
  /\ sections = <<>>
  /\ result = [called |-> FALSE, error |-> FALSE, sections |-> <<>>]
  /\ generator = NoGenerator
  /\ fs = NoFiles
  /\ cloning = NoClone
  /\ fb = NoFindBlocks
  /\ kssSection = NoSectionObject
  /\ generating = NoGeneration

SpecStatus == InitStatus /\ [][Next]_vars

\* The text begins with the label and a colon, whatever the case.
BeginsWithLabel(d, label) ==
  Len(d) >= 2 /\ LowerAtom(d[1]) = label /\ d[2] = ":"

\* Some line of the text begins, after optional whitespace, with the label
\* and a colon.
SomeLineBeginsWithLabel(d, label) ==
  \E k \in 1..Len(Split1(d, NL)) : BeginsWithLabel(LTrim(Split1(d, NL)[k]), label)

\* Some line of the text begins, after optional whitespace, with a run of
\* letters and spaces that a colon follows.
SomeLineBeginsWithWords(d) ==
  \E k \in 1..Len(Split1(d, NL)) :
    \E c \in 1..Len(Split1(d, NL)[k]) :
      /\ Split1(d, NL)[k][c] = ":"
      /\ \A m \in 1..(c - 1) : IsAlpha(Split1(d, NL)[k][m]) \/ IsWs(Split1(d, NL)[k][m])

WeightOf(value) ==
  IF Len(Trim(value)) = 1 /\ IsDigits(Trim(value)[1]) THEN DigitsValue(Trim(value)[1])
  ELSE 0

C13_WitnessNotNumeric ==
  /\ Pushed
  /\ LastSection.weight = 0
  /\ currSection.weight.set
  /\ \E k \in 1..Len(OriginalParagraphs) : OriginalParagraphs[k] = WeightAbc

-----------------------------------------------------------------------------
(* The output of parse() as a whole.                                       *)

\* The blocks of all buffers, buffer by buffer in the order of the input,
\* each buffer's blocks in the order of its text.
RECURSIVE BlocksFrom(_)
BlocksFrom(k) == IF k > Len(input) THEN <<>> ELSE findBlocks(input[k]) \o BlocksFrom(k + 1)
AllBlocks == BlocksFrom(1)

\* The block is one that parseChunk accepts: the last of the paragraphs
\* the property passes leave carries the marker and a reference.
AcceptedBlock(b) ==
  \E x \in {ExtractProperties(b, options).paragraphs} :
    x # <<>> /\ CarriesMarker(x[Len(x)], options)

\* The raw texts of a list of Sections.
Raws(list) == [k \in 1..Len(list) |-> list[k].raw]

\* C14: the Sections handed to the callback are, one for one and in this
\* order, the accepted blocks of the first buffer in text order, then those
\* of the second buffer, and so on.
C14_OrderedSections ==
  result.called => Raws(result.sections) = SelectSeq(AllBlocks, AcceptedBlock)

\* The callback got two Sections that come from two buffers.
C14_Witness ==
  /\ result.called
  /\ Len(input) = 2
  /\ Len(result.sections) = 2
  /\ <<result.sections[1].raw>> = findBlocks(input[1])
  /\ <<result.sections[2].raw>> = findBlocks(input[2])

\* The blocks whose iteration is over: those of the buffers before buffer i
\* and, inside parseChunk, those before block j of buffer i.
RECURSIVE BlocksBefore(_)
BlocksBefore(k) == IF k = 0 THEN <<>> ELSE BlocksBefore(k - 1) \o findBlocks(input[k])
HandledBlocks ==
  IF pc \in {"chunk", "threw"} THEN BlocksBefore(i - 1) \o SubSeq(blocks, 1, j - 1)
  ELSE BlocksBefore(i - 1)

\* C15 as stated: while buffer i is being parsed, and after a block of it
\* made parse() throw, the accumulating sequence holds no Section of a
\* block of buffer i.
C15_NoPartialOutput ==
  ((pc = "chunk" /\ j <= Len(blocks)) \/ pc = "threw") =>
    \A k \in 1..Len(sections) : \A n \in 1..Len(blocks) : sections[k].raw # blocks[n]

\* C15 amended: the accumulating sequence holds, at every moment, exactly
\* the Sections of the accepted blocks whose iteration is over, those of
\* the buffer being parsed included; the callback gets the sequence once
\* every buffer is parsed, and gets nothing when parse() throws.
C15_AppendedPerBlock ==
  /\ Raws(sections) = SelectSeq(HandledBlocks, AcceptedBlock)
  /\ ~result.called => result.sections = <<>>
  /\ result.called => (pc = "done" /\ i > Len(input) /\ result.sections = sections)
  /\ pc = "threw" => ~result.called

\* parse() threw in a block while the accumulating sequence held the
\* Section of an earlier block of the same buffer.
C15_Witness ==
  /\ pc = "threw"
  /\ i = 1
  /\ j = 3
  /\ Len(sections) = 1
  /\ sections[1].raw = blocks[1]

\* No paragraph of any block of any buffer carries the marker and a
\* reference.
NoReferenceAnywhere ==
  \A k \in 1..Len(AllBlocks) :
    \A n \in 1..Len(SplitParagraphs(AllBlocks[k])) :
      ~CarriesMarker(SplitParagraphs(AllBlocks[k])[n], options)

\* parse() came to its end without an error and gave the callback an empty
\* list.
EndsWithEmptyList ==
  /\ pc # "threw"
  /\ pc = "done" => (result.called /\ ~result.error /\ result.sections = <<>>)

\* C16 as stated: when no block carries a reference, parse() does not throw
\* and calls back with no error and an empty list.
C16_NoSectionsNoError == NoReferenceAnywhere => EndsWithEmptyList

\* The same for the inputs in which the property passes leave every block
\* at least one paragraph.
C16_ExceptEmptiedBlocks ==
  (/\ NoReferenceAnywhere
   /\ \A k \in 1..Len(AllBlocks) : ExtractProperties(AllBlocks[k], options).paragraphs # <<>>)
    => EndsWithEmptyList

\* parse() called back with an empty list for an input with a block.
C16_ExceptEmptiedBlocksReached ==
  pc = "done" /\ NoReferenceAnywhere /\ AllBlocks # <<>> /\ result.sections = <<>>

\* The fields of a Section that the block text determines.
ParsedFields(section) ==
  [header |-> section.header, description |-> section.description,
   modifiers |-> section.modifiers, parameters |-> section.parameters,
   reference |-> section.reference]

-----------------------------------------------------------------------------
(* Block comments with lines of different indentation.                     *)

TAB == "\t"

\* Most interior lines of the first block comment.
MaxLines == 3

\* The interior lines: a blank line, and a word behind no indentation, one
\* space, two spaces or a tab.
Indents == {<<>>, <<SP>>, <<SP, SP>>, <<TAB>>}
InteriorLines == {<<>>} \cup {indent \o <<"Head">> : indent \in Indents}

\* A buffer of two block comments.
TwoComments(first, second) ==
  Join(<<<<"/*">>>> \o first \o <<<<"*/">>, <<"/*">>>> \o second \o <<<<"*/">>>>, <<NL>>)

\* parse() called with one buffer of two block comments and the default
\* options.
InitIndent ==
  /\ \E n \in 1..MaxLines :
       \E first \in [1..n -> InteriorLines], second \in [1..2 -> InteriorLines] :
         input = <<TwoComments(first, second)>>
  /\ options = [markdown |-> TRUE, header |-> TRUE, typos |-> FALSE, custom |-> <<>>]
  /\ pc = "parse"
  /\ i = 1
  /\ blocks = <<>>
  /\ j = 1
  /\ paragraphs = <<>>
  /\ currSection = NoSection
  /\ kept = "none"
  /\ sections = <<>>
  /\ result = [called |-> FALSE, error |-> FALSE, sections |-> <<>>]
  /\ generator = NoGenerator
  /\ fs = NoFiles
  /\ cloning = NoClone
  /\ fb = NoFindBlocks
  /\ kssSection = NoSectionObject
  /\ generating = NoGeneration

SpecIndent == InitIndent /\ [][Next]_vars

\* The lines of the buffer, and the interior lines of its first and of its
\* second block comment.
BufferLines == Split1(input[1], NL)
FirstCloser == Least({k \in 1..Len(BufferLines) : BufferLines[k] = <<"*/">>})
FirstInterior == SubSeq(BufferLines, 2, FirstCloser - 1)
SecondInterior == SubSeq(BufferLines, FirstCloser + 2, Len(BufferLines) - 1)

\* The leading whitespace of a line.
LeadingWs(line) == SubSeq(line, 1, Least({k \in 1..(Len(line) + 1) :
                                            k > Len(line) \/ ~IsWs(line[k])}) - 1)

\* The line without the baseline, if it starts with it.
WithoutBaseline(line, baseline) ==
  IF Len(baseline) <= Len(line) /\ SubSeq(line, 1, Len(baseline)) = baseline
  THEN SubSeq(line, Len(baseline) + 1, Len(line))
  ELSE line

\* The lines without the blank lines among the first and the last ones.
RECURSIVE NoOuterBlanks(_)
NoOuterBlanks(lines) ==
  IF lines # <<>> /\ lines[1] = <<>> THEN NoOuterBlanks(Tail(lines))
  ELSE IF lines # <<>> /\ lines[Len(lines)] = <<>>
  THEN NoOuterBlanks(SubSeq(lines, 1, Len(lines) - 1))
  ELSE lines

\* The block of a comment with these interior lines: the baseline is the
\* leading whitespace of the first line that is not blank, and every line
\* loses it once if it starts with it.
ExpectedBlock(interior) ==
  LET lines == NoOuterBlanks(interior)
  IN  IF lines = <<>> THEN <<>>
      ELSE Join([k \in 1..Len(lines) |-> WithoutBaseline(lines[k], LeadingWs(lines[1]))],
                <<NL>>)

\* C18: the blocks findBlocks returns for two block comments are the
\* interior lines of each with the comment's own baseline taken off once
\* from every line that starts with it, the other lines unmodified.
C18_IndentBaseline ==
  (pc = "chunk" \/ i > 1) =>
    blocks = <<ExpectedBlock(FirstInterior), ExpectedBlock(SecondInterior)>>

\* The first comment had a baseline of one space, a line indented less that
\* was kept as it was and a line indented more that lost one space; the
\* second comment had a baseline of its own, a tab.
C18_Witness ==
  /\ pc = "chunk"
  /\ FirstInterior = <<<<SP, "Head">>, <<"Head">>, <<SP, SP, "Head">>>>
  /\ blocks[1] = <<"Head", NL, "Head", NL, SP, "Head">>
  /\ SecondInterior = <<<<TAB, "Head">>, <<SP, "Head">>>>
  /\ blocks[2] = <<"Head", NL, SP, "Head">>

-----------------------------------------------------------------------------
(* The accessors of a Section.                                             *)

\* C19 as stated: markup() of a pushed Section returns the markup string
\* of a block that has a Markup paragraph, and false for a block that has
\* none.
C19_MarkupOrFalse ==
  Pushed =>
    markup(LastSection) = IF currSection.markup.set THEN JsString(currSection.markup.val)
                          ELSE JsFalse

\* The same for the blocks that have a Markup paragraph.
C19_MarkupReturned ==
  (Pushed /\ currSection.markup.set) => C19_MarkupOrFalse

-----------------------------------------------------------------------------
(* Generators of different API versions.                                   *)

\* The greatest number in a version string.
MaxNumber == 4

\* The version strings: a major number alone, with a minor number, with a
\* patch number behind it, the empty string and a word.
VersionNumbers == {<<ToString(n)>> : n \in 0..MaxNumber}
VersionTexts ==
  VersionNumbers
  \cup {a \o <<".">> \o b : a \in VersionNumbers, b \in VersionNumbers}
  \cup {a \o <<".">> \o b \o <<".", "1">> : a \in VersionNumbers, b \in VersionNumbers}
  \cup {<<>>, <<"x">>}

\* A generator is about to be made, with a version string or without one;
\* parse() has no buffer to read.
InitGenerator ==
  /\ \E version \in {[passed |-> FALSE, text |-> <<>>]}
                    \cup {[passed |-> TRUE, text |-> t] : t \in VersionTexts} :
       generator = [NoGenerator EXCEPT !.version = version]
  /\ \E destination \in Destinations : fs = [NoFiles EXCEPT !.destination = destination]
  /\ cloning = NoClone
  /\ fb = NoFindBlocks
  /\ kssSection = NoSectionObject
  /\ generating = NoGeneration
  /\ input = <<>>
  /\ options = [markdown |-> TRUE, header |-> TRUE, typos |-> FALSE, custom |-> <<>>]
  /\ pc = "parse"
  /\ i = 1
  /\ blocks = <<>>
  /\ j = 1
  /\ paragraphs = <<>>
  /\ currSection = NoSection
  /\ kept = "none"
  /\ sections = <<>>
  /\ result = [called |-> FALSE, error |-> FALSE, sections |-> <<>>]

NextGenerator ==
  \/ Construct
  \/ CheckGenerator
  \/ Clone
  \/ StatSettles
  \/ CloneThen
  \/ CopySettles

SpecGenerator == InitGenerator /\ [][NextGenerator]_vars

\* The numbers written in the version handed to the constructor: the k-th
\* of its parts between dots, if it is a numeral.
HasNumber(k) ==
  /\ generator.version.passed
  /\ k <= Len(Split1(generator.version.text, "."))
  /\ Len(Split1(generator.version.text, ".")[k]) = 1
  /\ IsNumeral(Split1(generator.version.text, ".")[k][1])
NumberAt(k) == NumeralValue(Split1(generator.version.text, ".")[k][1])

\* C20: the promise of checkGenerator is resolved exactly when a version
\* was passed whose major number is the API's, 3, and whose minor number
\* is not greater than the API's, 0 (a version without a minor number has
\* none that is greater); in every other case it is rejected.
C20_CheckGenerator ==
  generator.checked # "none" =>
    /\ generator.checked \in {"resolved", "rejected"}
    /\ generator.checked = "resolved" <=>
         (/\ HasNumber(1)
          /\ NumberAt(1) = 3
          /\ ~(HasNumber(2) /\ NumberAt(2) > 0))

\* The promise was resolved for version 3.0.
C20_Witness ==
  /\ generator.checked = "resolved"
  /\ generator.version.text = <<"3", ".", "0">>

\* The promise was rejected for version 3.1, and for no version at all.
C20_WitnessGreaterMinor ==
  /\ generator.checked = "rejected"
  /\ generator.version.text = <<"3", ".", "1">>
C20_WitnessNoVersion ==
  /\ generator.checked = "rejected"
  /\ ~generator.version.passed

\* C21: clone starts the copy only after the stat of the destination
\* failed with ENOENT; for a destination that exists it rejects with
\* 'This folder already exists' and copies nothing; for any other error of
\* the stat it rejects with that error and copies nothing.
C21_CloneOnlyWhenAbsent ==
  /\ cloning.copyStarted => cloning.result = ErrorOf("ENOENT")
  /\ fs.copied => cloning.copyStarted
  /\ (cloning.pc = "done" /\ ~cloning.result.error) =>
       /\ cloning.settled = "rejected"
       /\ cloning.reason.message = "This folder already exists"
       /\ ~cloning.copyStarted /\ ~fs.copied
  /\ (cloning.pc = "done" /\ cloning.result.error /\ cloning.result.code # "ENOENT") =>
       /\ cloning.settled = "rejected"
       /\ cloning.reason = cloning.result
       /\ ~cloning.copyStarted /\ ~fs.copied

\* The copy was made after the stat failed with ENOENT.
C21_Witness ==
  /\ cloning.pc = "done"
  /\ cloning.result.code = "ENOENT"
  /\ cloning.settled = "resolved"
  /\ fs.copied

\* clone rejected for a destination that exists, and for one whose stat
\* failed with another error.
C21_WitnessExists ==
  /\ cloning.pc = "done"
  /\ cloning.result = Stats
  /\ cloning.settled = "rejected"
C21_WitnessOtherError ==
  /\ cloning.pc = "done"
  /\ cloning.result.code = "EACCES"
  /\ cloning.settled = "rejected"

-----------------------------------------------------------------------------
(* Source files read line by line.                                         *)

\* The most lines of a source file.
MaxInputLines == 4

\* The lines a source file is made of: line comments with and without
\* text, the openers and the closer of block comments, interior lines of
\* doc comments, code and a blank line.
SourceLines ==
  {<<"//", SP, "a">>, <<"//">>, <<"/*">>, <<"/*", "*">>, <<"*/">>,
   <<SP, "*", SP, "a">>, <<"*", SP, SP, "b">>, <<SP, SP, "c">>, <<"d">>, <<>>}

RECURSIVE LinesOfLength(_)
LinesOfLength(n) ==
  IF n = 0 THEN {<<>>}
  ELSE {Append(ls, l) : ls \in LinesOfLength(n - 1), l \in SourceLines}

\* findBlocks is called on a file of one to MaxInputLines lines; parse()
\* has no buffer to read.
InitFindBlocks ==
  /\ \E n \in 1..MaxInputLines : \E ls \in LinesOfLength(n) :
       fb = [lines |-> ls, k |-> 1, f |-> FindBlocksInit, returned |-> FALSE,
             blocks |-> <<>>]
  /\ kssSection = NoSectionObject
  /\ generating = NoGeneration
  /\ input = <<>>
  /\ options = [markdown |-> TRUE, header |-> TRUE, typos |-> FALSE, custom |-> <<>>]
  /\ pc = "parse"
  /\ i = 1
  /\ blocks = <<>>
  /\ j = 1
  /\ paragraphs = <<>>
  /\ currSection = NoSection
  /\ kept = "none"
  /\ sections = <<>>
  /\ result = [called |-> FALSE, error |-> FALSE, sections |-> <<>>]
  /\ generator = NoGenerator
  /\ fs = NoFiles
  /\ cloning = NoClone

NextFindBlocks == FindBlocksStep \/ FindBlocksReturn

SpecFindBlocks == InitFindBlocks /\ [][NextFindBlocks]_vars

\* How many of the three mode flags are set.
ModesSet(f) ==
  (IF f.insideSingleBlock THEN 1 ELSE 0) + (IF f.insideMultiBlock THEN 1 ELSE 0)
    + (IF f.insideDocblock THEN 1 ELSE 0)

\* C22: after any line findBlocks is in at most one of the modes
\* SingleRun, MultiBlock and DocBlock: no two of insideSingleBlock,
\* insideMultiBlock and insideDocblock are set at once.
C22_OneMode == ModesSet(fb.f) <= 1

\* The same with the doc-comment opener inside an open block comment left
\* out: no line so far is a '/**' line met while insideMultiBlock was set.
RECURSIVE OpenerInsideMulti(_, _, _)
OpenerInsideMulti(f, lines, k) ==
  IF k > Len(lines) THEN FALSE
  ELSE \/ f.insideMultiBlock /\ IsDocblockStart(RTrim(lines[k]))
       \/ OpenerInsideMulti(FindBlocksLine(f, lines[k]), lines, k + 1)
C22_OneModeWithoutNestedOpener ==
  ~OpenerInsideMulti(FindBlocksInit, Take(fb.lines, fb.k - 1), 1) => ModesSet(fb.f) <= 1
C22_OneModeReached ==
  /\ fb.k > 2
  /\ fb.f.insideDocblock
  /\ ~OpenerInsideMulti(FindBlocksInit, Take(fb.lines, fb.k - 1), 1)

\* The loop variables before the line read last, and that line without
\* its trailing space.
PrevFindBlocks == FindBlocksLoop(FindBlocksInit, Take(fb.lines, fb.k - 2), 1)
LastLine == RTrim(fb.lines[fb.k - 1])

\* The index of the first line of the run of '//' lines that ends with
\* line p.
RECURSIVE RunStart(_, _)
RunStart(lines, p) ==
  IF p >= 1 /\ IsSingle(RTrim(lines[p])) THEN RunStart(lines, p - 1) ELSE p + 1

\* The text of the run of '//' lines that ends with line p: the lines
\* without their markers joined by newlines, without blank lines at its
\* ends.
RunText(lines, p) ==
  TrimNewlines(Join([n \in 1..(p + 1 - RunStart(lines, p)) |->
                       StripSingle(RTrim(lines[RunStart(lines, p) + n - 1]))], <<NL>>))

\* A '//' line outside any block comment adds to the run and emits
\* nothing; the first other line emits the run as one block.
RunExtendedThenFlushed ==
  (fb.k >= 2 /\ ~fb.returned) =>
    \A prev \in {PrevFindBlocks} :
      /\ (~prev.insideMultiBlock /\ ~prev.insideDocblock /\ IsSingle(LastLine)) =>
           /\ fb.f.blocks = prev.blocks
           /\ fb.f.insideSingleBlock
      /\ (prev.insideSingleBlock /\ ~IsSingle(LastLine)) =>
           /\ fb.f.blocks = Append(prev.blocks, RunText(fb.lines, fb.k - 2))
           /\ ~fb.f.insideSingleBlock

\* C23: a maximal run of '//' lines outside any block comment is emitted
\* as exactly one block, its lines joined by newlines; the first line
\* that is not a '//' line flushes it, and so does the end of the input.
C23_RunIsOneBlock ==
  /\ RunExtendedThenFlushed
  /\ (fb.returned /\ fb.f.insideSingleBlock) =>
       fb.blocks = Append(fb.f.blocks, RunText(fb.lines, Len(fb.lines)))

\* The same for every run but one of '//' lines without text that ends
\* the input: it is emitted as a block when it has text, and not at all
\* when it has none.
C23_ExceptEmptyRunAtEnd ==
  /\ RunExtendedThenFlushed
  /\ (fb.returned /\ fb.f.insideSingleBlock) =>
       fb.blocks = IF RunText(fb.lines, Len(fb.lines)) # <<>>
                   THEN Append(fb.f.blocks, RunText(fb.lines, Len(fb.lines)))
                   ELSE fb.f.blocks
C23_TwoRunsReached ==
  /\ fb.returned
  /\ fb.lines = << <<"//", SP, "a">>, <<"//">>, <<"//", SP, "a">>, <<"d">> >>
  /\ fb.blocks = << <<"a", NL, NL, "a">> >>
C23_EmptyRunFlushedByLine ==
  /\ fb.returned
  /\ fb.lines = << <<"//">>, <<"d">> >>
  /\ fb.blocks = << <<>> >>

\* An interior line of a doc block without its alignment marker: the
\* leading whitespace, one '*' and at most one space after it.
WithoutMarker(line) ==
  IF LTrim(line) # <<>> /\ LTrim(line)[1] = "*" THEN DropOneWs(Tail(LTrim(line)))
  ELSE line

\* The loop variables after the first p lines.
FindBlocksAfter(p) == FindBlocksLoop(FindBlocksInit, Take(fb.lines, p), 1)

\* The '/**' line that took findBlocks into the doc block open after p
\* lines, and the last '/**' line among them.
FirstOpener(p) ==
  CHOOSE q \in 1..p :
    /\ \A r \in q..p : FindBlocksAfter(r).insideDocblock
    /\ ~FindBlocksAfter(q - 1).insideDocblock
LastOpener(p) ==
  CHOOSE q \in 1..p :
    /\ IsDocblockStart(RTrim(fb.lines[q]))
    /\ \A r \in (q + 1)..p : ~IsDocblockStart(RTrim(fb.lines[r]))

\* The text of the lines q + 1 .. p: each without its marker, joined by
\* newlines, without blank lines at its ends.
DocText(q, p) ==
  TrimNewlines(Join([n \in 1..(p - q) |-> WithoutMarker(RTrim(fb.lines[q + n]))], <<NL>>))

\* A '/**' line leaves findBlocks inside a doc block with nothing
\* accumulated.
DocblockOpened ==
  (fb.k >= 2 /\ IsDocblockStart(LastLine)) =>
    /\ fb.f.insideDocblock
    /\ fb.f.currentBlock = <<>>

\* The '*/' line that closes a doc block emits one block, the text of the
\* lines behind opener q, and leaves findBlocks idle with nothing
\* accumulated.
DocblockClosed(q) ==
  /\ fb.f.blocks = Append(PrevFindBlocks.blocks, DocText(q, fb.k - 2))
  /\ ModesSet(fb.f) = 0
  /\ fb.f.currentBlock = <<>>
ClosesDocblock ==
  /\ fb.k >= 3
  /\ IsMultiFinish(LastLine)
  /\ PrevFindBlocks.insideDocblock

\* C24: a '/**' line opens a doc block; every line from there to the
\* closing '*/' line contributes one line, without its marker, to the
\* one block the '*/' line emits, and findBlocks is idle with an empty
\* accumulator afterwards.
C24_DocBlock ==
  /\ DocblockOpened
  /\ ClosesDocblock => DocblockClosed(FirstOpener(fb.k - 2))

\* The same for the lines behind the last '/**' line before the '*/'
\* line: an earlier one and the lines behind it are not in the block.
C24_SinceLastOpener ==
  /\ DocblockOpened
  /\ ClosesDocblock => DocblockClosed(LastOpener(fb.k - 2))
C24_SinceLastOpenerReached ==
  /\ ClosesDocblock
  /\ fb.lines = << <<"/*", "*">>, <<SP, "*", SP, "a">>, <<"*", SP, SP, "b">>, <<"*/">> >>
  /\ fb.f.blocks = << <<"a", NL, SP, "b">> >>

-----------------------------------------------------------------------------
(* Blocks with Markup paragraphs written in different ways.                *)

\* The value directly behind the colon, on the next line, and behind a
\* label that is misspelt but sounds like Markup.
MarkupNoSpace == <<"Markup", ":", "x">>
MarkupNextLine == <<"Markup", ":", NL, "x">>
MarcupX == <<"marcup", ":", SP, "x">>

PropertyPool == {HeadOne, MarkupX, MarkupNoSpace, MarkupNextLine, MarcupX}
PropertyBodies == UNION {[1..n -> PropertyPool] : n \in 0..MaxBody}

\* parse() called with one buffer: a block of Markup paragraphs that ends
\* with a reference.
InitProperty ==
  /\ \E body \in PropertyBodies : input = Buffers("alone", BlockText(body, RefOne))
  /\ \E markdown \in BOOLEAN, header \in BOOLEAN, typos \in BOOLEAN :
       options = [markdown |-> markdown, header |-> header, typos |-> typos,
                  custom |-> <<>>]
  /\ pc = "parse"
  /\ i = 1
  /\ blocks = <<>>
  /\ j = 1
  /\ paragraphs = <<>>
  /\ currSection = NoSection
  /\ kept = "none"
  /\ sections = <<>>
  /\ result = [called |-> FALSE, error |-> FALSE, sections |-> <<>>]
  /\ generator = NoGenerator
  /\ fs = NoFiles
  /\ cloning = NoClone
  /\ fb = NoFindBlocks
  /\ kssSection = NoSectionObject
  /\ generating = NoGeneration

SpecProperty == InitProperty /\ [][Next]_vars

\* The text of a paragraph behind its first colon.
AfterColon(paragraph) == Drop(paragraph, IndexOf(paragraph, ":"))

\* The last paragraph of ps that matches Markup, the one whose value is
\* stored.
StoredFrom(ps) ==
  ps[CHOOSE k \in Matching(ps, "Markup") : \A n \in Matching(ps, "Markup") : n <= k]

\* The stored value is the text of paragraph p behind the label and its
\* colon, whitespace at its front aside.
ValueFollowsLabel(p) ==
  /\ currSection.markup.set
  /\ LTrim(currSection.markup.val) = LTrim(AfterColon(p))

\* C25: the value processProperty stores for a matching paragraph is the
\* text behind the label and its colon, never the label itself, for an
\* exact label with or without whitespace behind the colon and for a
\* misspelt label accepted by its sound.
C25_ValueFollowsLabel ==
  (kept # "none" /\ Matching(OriginalParagraphs, "Markup") # {}) =>
    ValueFollowsLabel(StoredFrom(OriginalParagraphs))

\* The same for the paragraphs that begin with the label as it is spelt,
\* a colon and whitespace: for every other matching paragraph the whole
\* paragraph, label included, is the stored value.
ExactLabelThenSpace(p) ==
  /\ Len(p) >= 3
  /\ LowerAtom(p[1]) = "markup"
  /\ p[2] = ":"
  /\ IsWs(p[3])
C25_ExactLabelThenSpace ==
  (kept # "none" /\ Matching(OriginalParagraphs, "Markup") # {}) =>
    \A p \in {StoredFrom(OriginalParagraphs)} :
      /\ currSection.markup.set
      /\ IF ExactLabelThenSpace(p) THEN ValueFollowsLabel(p)
         ELSE currSection.markup.val = p
C25_NoSpaceReached ==
  /\ kept # "none"
  /\ OriginalParagraphs = <<HeadOne, MarkupNoSpace, RefOne>>
  /\ currSection.markup.val = MarkupNoSpace
C25_MisspeltReached ==
  /\ kept # "none"
  /\ options.typos
  /\ OriginalParagraphs = <<HeadOne, MarcupX, RefOne>>
  /\ currSection.markup.val = MarcupX
C25_NextLineReached ==
  /\ kept # "none"
  /\ OriginalParagraphs = <<HeadOne, MarkupNextLine, RefOne>>
  /\ currSection.markup.val = <<"x">>

-----------------------------------------------------------------------------
(* Blocks with an entry paragraph of several lines.                        *)

\* Most lines of the entry paragraph.
MaxEntryLines == 3

\* Entry lines: plain, with a second ' - ' in the description, indented,
\* with the separator spread over more whitespace; and lines that are no
\* entries, one of them indented.
EntryLinePool ==
  {<<".a", SP, "-", SP, "d">>,
   <<".b", SP, "-", SP, "e", SP, "-", SP, "f">>,
   <<SP, ".c", SP, SP, "-", SP, SP, "g">>,
   <<"cont">>,
   <<SP, SP, "more", SP, "text">>}

EntryParagraphs ==
  {Join(ls, <<NL>>) : ls \in UNION {[1..n -> EntryLinePool] : n \in 1..MaxEntryLines}}

\* parse() called with one buffer: a heading, with or without a Markup
\* paragraph, a paragraph of candidate entry lines and a reference.
InitEntries ==
  /\ \E p \in EntryParagraphs, props \in {<<>>, <<MarkupX>>} :
       input = Buffers("alone", BlockText(<<HeadOne>> \o props \o <<Trim(p)>>, RefOne))
  /\ \E markdown \in BOOLEAN :
       options = [markdown |-> markdown, header |-> TRUE, typos |-> FALSE,
                  custom |-> <<>>]
  /\ pc = "parse"
  /\ i = 1
  /\ blocks = <<>>
  /\ j = 1
  /\ paragraphs = <<>>
  /\ currSection = NoSection
  /\ kept = "none"
  /\ sections = <<>>
  /\ result = [called |-> FALSE, error |-> FALSE, sections |-> <<>>]
  /\ generator = NoGenerator
  /\ fs = NoFiles
  /\ cloning = NoClone
  /\ fb = NoFindBlocks
  /\ kssSection = NoSectionObject
  /\ generating = NoGeneration

SpecEntries == InitEntries /\ [][Next]_vars

\* The entries made from the candidate lines of a pushed block of three
\* or more paragraphs.
EntriesMade ==
  IF currSection.markup.set THEN currSection.modifiers ELSE currSection.parameters
AcceptedEntryParagraph ==
  /\ Pushed
  /\ Len(paragraphs) >= 3
  /\ IsEntryLine(CandidateLines[1])

\* The indices of the lines that match the entry pattern, and the m-th of
\* them.
MatchingLines(lines) == {k \in 1..Len(lines) : IsEntryLine(lines[k])}
NthMatching(lines, m) ==
  CHOOSE k \in MatchingLines(lines) :
    Cardinality({n \in MatchingLines(lines) : n <= k}) = m

\* The last of the lines behind line k that come before the next matching
\* line.
LastContinuation(lines, k) ==
  CHOOSE r \in k..Len(lines) :
    /\ \A n \in (k + 1)..r : ~IsEntryLine(lines[n])
    /\ r = Len(lines) \/ IsEntryLine(lines[r + 1])

\* Line k with the lines that continue it, trimmed, behind it, one space
\* between them.
WithContinuations(lines, k) ==
  Join(<<lines[k]>> \o [n \in 1..(LastContinuation(lines, k) - k) |-> Trim(lines[k + n])],
       <<SP>>)

\* C26: in an accepted entry paragraph there is one entry for each line
\* that matches the entry pattern, in the order of the lines, and every
\* other line is appended, trimmed and behind one space, to the matching
\* line before it: the entries are those of the matching lines with their
\* continuations.
C26_Continuations ==
  AcceptedEntryParagraph =>
    \A lines \in {CandidateLines} :
      /\ Len(EntriesMade) = Cardinality(MatchingLines(lines))
      /\ EntriesMade =
           createModifiers([m \in 1..Cardinality(MatchingLines(lines)) |->
                              WithContinuations(lines, NthMatching(lines, m))],
                           options)

\* An entry with two continuation lines behind it, and an entry paragraph
\* of entry, continuation, entry.
C26_Witness ==
  /\ AcceptedEntryParagraph
  /\ ~options.markdown
  /\ Len(CandidateLines) = 3
  /\ MatchingLines(CandidateLines) = {1}
  /\ Len(EntriesMade) = 1
  /\ EntriesMade[1].description = <<"d", SP, "cont", SP, "more", SP, "text">>
C26_WitnessBetween ==
  /\ AcceptedEntryParagraph
  /\ MatchingLines(CandidateLines) = {1, 3}
  /\ Len(EntriesMade) = 2

\* The index of the hyphen of the first whitespace-hyphen-whitespace
\* separator of a line, 0 if it has none.
FirstSeparator(line) ==
  LET hits == {k \in 2..(Len(line) - 1) :
                 line[k] = "-" /\ IsWs(line[k - 1]) /\ IsWs(line[k + 1])}
  IN  IF hits = {} THEN 0 ELSE CHOOSE k \in hits : \A n \in hits : k <= n

\* The text before the separator and everything behind it.
BeforeSeparator(line) == Take(line, FirstSeparator(line) - 1)
AfterSeparator(line) == LTrim(Drop(line, FirstSeparator(line)))

\* The lines handed to createModifiers or createParameters: the matching
\* lines with their continuations.
EntryInput ==
  [m \in 1..Cardinality(MatchingLines(CandidateLines)) |->
     WithContinuations(CandidateLines, NthMatching(CandidateLines, m))]

\* One entry for each line, in the order of the lines, with the
\* description everything behind the first separator (rendered inline
\* under markdown).
EntryPerLine ==
  /\ Len(EntriesMade) = Len(EntryInput)
  /\ \A m \in 1..Len(EntryInput) :
       EntriesMade[m].description =
         IF options.markdown THEN MarkedInline(AfterSeparator(EntryInput[m]))
         ELSE AfterSeparator(EntryInput[m])

\* C27: createModifiers and createParameters return one entry for each
\* line, in the same order, duplicates kept; the name is the text before
\* the first whitespace-hyphen-whitespace separator without whitespace at
\* its ends, the description everything behind that separator.
C27_NameTrimmed ==
  AcceptedEntryParagraph =>
    /\ EntryPerLine
    /\ \A m \in 1..Len(EntryInput) :
         EntriesMade[m].name = Trim(BeforeSeparator(EntryInput[m]))

\* The same with the name as it is cut off: the whitespace before the
\* separator is not in it, the whitespace at the front of the line is.
C27_NameAsCut ==
  AcceptedEntryParagraph =>
    /\ EntryPerLine
    /\ \A m \in 1..Len(EntryInput) :
         EntriesMade[m].name = RTrim(BeforeSeparator(EntryInput[m]))
C27_DuplicatesReached ==
  /\ AcceptedEntryParagraph
  /\ ~options.markdown
  /\ Len(EntriesMade) = 3
  /\ EntriesMade[1] = EntriesMade[3]
  /\ EntriesMade[2] = [name |-> <<".b">>, description |-> <<"e", SP, "-", SP, "f">>]
C27_IndentedReached ==
  /\ AcceptedEntryParagraph
  /\ Len(EntriesMade) = 2
  /\ EntriesMade[2].name = <<SP, ".c">>

\* The opener that took findBlocks into the block comment, '/*' or '/**',
\* that is open after p lines.
BlockOpener(p) ==
  CHOOSE q \in 1..p :
    /\ \A r \in q..p : FindBlocksAfter(r).insideMultiBlock \/ FindBlocksAfter(r).insideDocblock
    /\ ~(FindBlocksAfter(q - 1).insideMultiBlock \/ FindBlocksAfter(q - 1).insideDocblock)

\* The text t holds the texts of ws one behind the other, in this order,
\* each on lines of its own.
RECURSIVE HoldsInOrder(_, _)
HoldsInOrder(ls, ws) ==
  IF ws = <<>> THEN TRUE
  ELSE IF ls = <<>> THEN FALSE
  ELSE IF ls[1] = ws[1] THEN HoldsInOrder(Tail(ls), Tail(ws))
  ELSE HoldsInOrder(Tail(ls), ws)

\* The interior lines q + 1 .. p that have text, as they are kept: without
\* leading whitespace and, in a doc block, without the marker.
KeptLines(q, p) ==
  SelectSeq([n \in 1..(p - q) |->
               IF FindBlocksAfter(p).insideDocblock
               THEN LTrim(WithoutMarker(RTrim(fb.lines[q + n])))
               ELSE Trim(fb.lines[q + n])],
            LAMBDA l : l # <<>>)

\* The lines of a block, without their leading whitespace.
BlockLines(block) ==
  [n \in 1..Len(Split1(block, NL)) |-> LTrim(Split1(block, NL)[n])]

\* A '*/' line closes the block comment that is open.
ClosesBlock ==
  /\ fb.k >= 3
  /\ ~fb.returned
  /\ IsMultiFinish(LastLine)
  /\ PrevFindBlocks.insideMultiBlock \/ PrevFindBlocks.insideDocblock

\* The input ends inside a block comment.
EndsInsideBlock ==
  /\ fb.returned
  /\ fb.f.insideMultiBlock \/ fb.f.insideDocblock

\* C28: nothing accumulated inside an open block comment is discarded:
\* every interior line between the opener and the line that flushes the
\* block, the '*/' line or the end of the input, is in the one block
\* emitted for it, in order, whatever the interior lines are.
C28_InteriorKept ==
  /\ ClosesBlock =>
       /\ Len(fb.f.blocks) = Len(PrevFindBlocks.blocks) + 1
       /\ HoldsInOrder(BlockLines(fb.f.blocks[Len(fb.f.blocks)]),
                       KeptLines(BlockOpener(fb.k - 2), fb.k - 2))
  /\ (EndsInsideBlock /\ KeptLines(BlockOpener(Len(fb.lines)), Len(fb.lines)) # <<>>) =>
       /\ Len(fb.blocks) = Len(fb.f.blocks) + 1
       /\ HoldsInOrder(BlockLines(fb.blocks[Len(fb.blocks)]),
                       KeptLines(BlockOpener(Len(fb.lines)), Len(fb.lines)))

\* No opener line inside the block comment open after p lines.
NoOpenerInside(p) ==
  \A r \in (BlockOpener(p) + 1)..p : ~IsMultiStart(RTrim(fb.lines[r]))

\* The same for the block comments without an opener line, '/*' or '/**',
\* among their interior lines.
C28_ExceptOpenerInside ==
  /\ (ClosesBlock /\ NoOpenerInside(fb.k - 2)) =>
       /\ Len(fb.f.blocks) = Len(PrevFindBlocks.blocks) + 1
       /\ HoldsInOrder(BlockLines(fb.f.blocks[Len(fb.f.blocks)]),
                       KeptLines(BlockOpener(fb.k - 2), fb.k - 2))
  /\ (/\ EndsInsideBlock
      /\ NoOpenerInside(Len(fb.lines))
      /\ KeptLines(BlockOpener(Len(fb.lines)), Len(fb.lines)) # <<>>) =>
       /\ Len(fb.blocks) = Len(fb.f.blocks) + 1
       /\ HoldsInOrder(BlockLines(fb.blocks[Len(fb.blocks)]),
                       KeptLines(BlockOpener(Len(fb.lines)), Len(fb.lines)))
C28_ExceptOpenerInsideReached ==
  /\ ClosesBlock
  /\ NoOpenerInside(fb.k - 2)
  /\ fb.lines = << <<"/*">>, <<SP, SP, "c">>, <<"//", SP, "a">>, <<"*/">> >>
  /\ fb.f.blocks = << <<"c", NL, "//", SP, "a">> >>

-----------------------------------------------------------------------------
(* A section object whose reference is read and changed.                   *)

\* A section has been made with a reference; parse() has no buffer to
\* read.
InitSection ==
  /\ \E reference \in References : kssSection = NewKssSection(reference)
  /\ generating = NoGeneration
  /\ input = <<>>
  /\ options = [markdown |-> TRUE, header |-> TRUE, typos |-> FALSE, custom |-> <<>>]
  /\ pc = "parse"
  /\ i = 1
  /\ blocks = <<>>
  /\ j = 1
  /\ paragraphs = <<>>
  /\ currSection = NoSection
  /\ kept = "none"
  /\ sections = <<>>
  /\ result = [called |-> FALSE, error |-> FALSE, sections |-> <<>>]
  /\ generator = NoGenerator
  /\ fs = NoFiles
  /\ cloning = NoClone
  /\ fb = NoFindBlocks

NextSection == SetReference \/ GetReferenceURI \/ SetReferenceURI

SpecSection == InitSection /\ [][NextSection]_vars

\* C29: for a section whose referenceURI was never set explicitly,
\* referenceURI() returns the URI form of the reference the section has
\* at that moment, after any calls of the reference setter and of
\* referenceURI().
C29_URIOfCurrentReference ==
  (kssSection.last = "referenceURI" /\ ~kssSection.explicit) =>
    kssSection.returned = ReferenceURIOf(kssSection.reference)

\* The same while the reference setter has not been called: what
\* referenceURI() returns is the URI form of the reference the section
\* was made with.
C29_URIOfFirstReference ==
  (kssSection.last = "referenceURI" /\ ~kssSection.explicit /\ ~kssSection.referenceSet) =>
    kssSection.returned = ReferenceURIOf(kssSection.reference)
C29_URIOfFirstReferenceReached ==
  /\ kssSection.last = "referenceURI"
  /\ ~kssSection.explicit
  /\ ~kssSection.referenceSet
  /\ kssSection.reference = <<"Style", SP, "-", SP, "guide">>
  /\ kssSection.returned = <<"style", "-", "guide">>

-----------------------------------------------------------------------------
(* Style guides handed to generate().                                      *)

\* Most sections of a style guide.
MaxSections == 2

\* The sections: a reference, and no markup, inline markup, or a markup
\* file that is found, not found, or whose lookup fails.
GuideReferences == {<<"a">>, <<"a", ".", "1">>, <<"b", SP, "-", SP, "x">>}
MarkupKinds == {"none", "inline", "file", "file not found", "file fails"}
GuideSections == [reference : GuideReferences, markup : MarkupKinds]

\* generate() is about to be called with a style guide; parse() has no
\* buffer to read.
InitGenerate ==
  /\ \E n \in 0..MaxSections : \E list \in [1..n -> GuideSections] :
       generating = [NoGeneration EXCEPT !.sections = list]
  /\ input = <<>>
  /\ options = [markdown |-> TRUE, header |-> TRUE, typos |-> FALSE, custom |-> <<>>]
  /\ pc = "parse"
  /\ i = 1
  /\ blocks = <<>>
  /\ j = 1
  /\ paragraphs = <<>>
  /\ currSection = NoSection
  /\ kept = "none"
  /\ sections = <<>>
  /\ result = [called |-> FALSE, error |-> FALSE, sections |-> <<>>]
  /\ generator = NoGenerator
  /\ fs = NoFiles
  /\ cloning = NoClone
  /\ fb = NoFindBlocks
  /\ kssSection = NoSectionObject

NextGenerate ==
  \/ Generate
  \/ \E k \in 1..Len(generating.tasks) : LookupSettles(k)
  \/ \E k \in 1..Len(generating.tasks) : RegisterPartial(k)
  \/ LookupsReject
  \/ StartPages
  \/ \E p \in DOMAIN generating.pages : PageSettles(p)
  \/ PagesSettle

SpecGenerate == InitGenerate /\ [][NextGenerate]_vars

\* The indices of the sections that have markup, and the root references
\* of the style guide.
WithMarkup == {k \in 1..Len(generating.sections) : generating.sections[k].markup # "none"}
Roots == {RootOf(generating.sections[k].reference) : k \in 1..Len(generating.sections)}
PagesStarted == DOMAIN generating.pages
PagesWritten == {p \in DOMAIN generating.pages : generating.pages[p] = "written"}

\* C30: no page is rendered or written before every section with markup
\* has its partial registered and recorded under its reference, whatever
\* order the lookups finish in; when a lookup fails no page is written;
\* when generate() succeeds there is one page for each distinct root
\* reference and one homepage.
C30_PagesAfterPartials ==
  /\ PagesStarted # {} =>
       \A k \in WithMarkup :
         /\ generating.tasks[k] = "registered"
         /\ generating.sections[k].reference \in generating.partials
  /\ (\E k \in 1..Len(generating.tasks) : generating.tasks[k] = "failed") =>
       PagesStarted = {}
  /\ PagesStarted # {} => PagesStarted = Roots \cup {Homepage}
  /\ generating.settled = "resolved" =>
       /\ PagesWritten = Roots \cup {Homepage}
       /\ Cardinality(PagesWritten) = Cardinality(Roots) + 1

\* generate() succeeded for two sections with markup files under one
\* root: two partials, one page and the homepage.
C30_Witness ==
  /\ generating.settled = "resolved"
  /\ Len(generating.sections) = 2
  /\ WithMarkup = {1, 2}
  /\ generating.sections[1].markup = "file"
  /\ generating.sections[2].markup = "file"
  /\ Cardinality(generating.partials) = 2
  /\ PagesWritten = {<<"a">>, Homepage}

\* The second lookup finished before the first; a failed lookup with the
\* other partial registered after the rejection.
C30_WitnessOutOfOrder ==
  /\ generating.pc = "lookups"
  /\ Len(generating.tasks) = 2
  /\ generating.tasks[1] = "pending"
  /\ generating.tasks[2] = "registered"
C30_WitnessFailed ==
  /\ generating.settled = "rejected"
  /\ Len(generating.tasks) = 2
  /\ generating.tasks[1] = "failed"
  /\ generating.tasks[2] = "registered"
  /\ PagesStarted = {}

====
